---- MODULE Spec2Model ----
(***************************************************************************)
(* A model of the request pipeline of the Vane reverse proxy: the path     *)
(* matcher, the router, the rate-limit engine, the middleware chain of the *)
(* three listeners and the failover forwarder.                             *)
(*                                                                         *)
(* Strings are sequences of one-character strings, so that splitting on    *)
(* "/" and concatenating host and path are computed, not assumed.          *)
(* Option<T> is a sequence of length at most one: None is <<>>, Some(x) is *)
(* <<x>>.                                                                  *)
(***************************************************************************)
EXTENDS Integers, Sequences, FiniteSets, TLC

VARIABLES
    mPattern,       \* path matcher: the pattern argument
    mPath,          \* path matcher: the path argument
    mScore,         \* path matcher: <<>> before the call, <<result>> after it
    rPath,          \* router: the path argument of find_target_urls
    rHost,          \* router: the host argument of find_target_urls
    rResult,        \* router: <<>> before the call, <<result>> after it
    quota,          \* one client's bucket of one limiter under a clock, or <<>>
    boot,           \* startup: the files read, the step reached, the listeners, or <<>>
    tls,            \* the certificate files and the TLS handshakes in progress, or <<>>
    pages,          \* the status-page directory and the error responses served, or <<>>
    acme,           \* one fetch_resource call: attempts made, waits, result, or <<>>
    renewal,        \* the certificate refresh task and the files of cert_dir, or <<>>
    config,         \* AppConfig: [domains: host -> DomainConfig]
    iter_order,     \* the iteration orders of the HashMaps, fixed at startup
    shield,         \* the shield limiter: client IP -> tokens left
    configurable_limiter,   \* AppState.configurable_limiter
    route_limiters,         \* AppState.route_limiters: key -> limiter
    override_limiters,      \* AppState.override_limiters: key -> limiter
    req,            \* task -> Option<Request>: the request a task is serving
    pc,             \* task -> the handler (or step of it) that runs next
    ext_addr,       \* task -> Option<SocketAddr>: the request extension
    consulted,      \* task -> the limiter checks made for the request, in order
    visited,        \* task -> the handlers entered by the request, in order
    fwd,            \* task -> proxy_handler's locals: targets, index, last_error
    attempts,       \* task -> the outbound requests sent to backends, in order
    resp            \* task -> the responses returned to the client, in order

None == <<>>
Some(x) == <<x>>

-----------------------------------------------------------------------------
(* Bounds of the model.                                                    *)

\* longest pattern string given to the path matcher
MaxPatLen == 3
\* longest path string given to the path matcher
MaxPathLen == 4
\* most routes of a domain in the router's configurations
MaxRoutes == 3
\* capacity of the shield bucket of one client (30 in the program, scaled down)
ShieldBurst == 2

\* the characters of the pattern and path strings
Chars == {"/", "a", "b", "*"}

RECURSIVE StringsUpTo(_)
StringsUpTo(n) ==
    IF n = 0 THEN {<<>>}
    ELSE LET shorter == StringsUpTo(n - 1)
         IN  shorter \cup {Append(s, c) : s \in {t \in shorter : Len(t) = n - 1}, c \in Chars}

-----------------------------------------------------------------------------
(* src/path_matcher.rs                                                     *)

\* str::split('/').filter(|s| !s.is_empty()).collect(), one character at a
\* time: cur is the segment being read, acc the segments already closed.
RECURSIVE SplitAcc(_, _, _)
SplitAcc(s, cur, acc) ==
    IF s = <<>> THEN (IF cur = <<>> THEN acc ELSE Append(acc, cur))
    ELSE IF Head(s) = "/"
         THEN SplitAcc(Tail(s), <<>>, IF cur = <<>> THEN acc ELSE Append(acc, cur))
         ELSE SplitAcc(Tail(s), Append(cur, Head(s)), acc)

split_parts(s) == SplitAcc(s, <<>>, <<>>)

MatchScore(exact, total) == [exact_parts |-> exact, total_parts |-> total]

\* #[derive(PartialOrd, Ord)] on MatchScore: lexicographic, exact_parts first
ScoreGt(x, y) ==
    \/ x.exact_parts > y.exact_parts
    \/ x.exact_parts = y.exact_parts /\ x.total_parts > y.total_parts

\* the wildcard test of the loop: *p_part == "*"
IsWildcard(part) == part = <<"*">>

\* the loop over pattern_parts.iter().enumerate(), from index i (1-based)
RECURSIVE ScoreLoop(_, _, _, _)
ScoreLoop(pattern_parts, path_parts, i, exact_parts) ==
    IF i > Len(pattern_parts)
    THEN Some(MatchScore(exact_parts, Len(pattern_parts)))
    ELSE IF IsWildcard(pattern_parts[i])
         THEN ScoreLoop(pattern_parts, path_parts, i + 1, exact_parts)
         ELSE IF i > Len(path_parts) \/ pattern_parts[i] # path_parts[i]
              THEN None
              ELSE ScoreLoop(pattern_parts, path_parts, i + 1, exact_parts + 1)

\* get_match_score without the early return on a pattern longer than the path
get_match_score_NoLengthCheck(pattern, path) ==
    ScoreLoop(split_parts(pattern), split_parts(path), 1, 0)

get_match_score(pattern, path) ==
    LET pattern_parts == split_parts(pattern)
        path_parts    == split_parts(path)
    IN  IF Len(pattern_parts) > Len(path_parts)
        THEN None
        ELSE ScoreLoop(pattern_parts, path_parts, 1, 0)

-----------------------------------------------------------------------------
(* src/models.rs, src/config.rs: the configuration.                        *)

\* a Route of a domain: a path pattern and its ordered targets
Route(path, targets) == [path |-> path, targets |-> targets]

\* a DomainConfig with every #[serde(default)] field at its default
DefaultDomain ==
    [ https        |-> FALSE,
      http_options |-> "allow",
      hsts         |-> FALSE,
      http3        |-> FALSE,
      tls          |-> None,
      routes       |-> <<>>,
      rate_limit   |-> [default |-> None, routes |-> <<>>, overrides |-> <<>>],
      cors         |-> None,
      methods      |-> None ]

\* AppConfig.domains: a map from host name to DomainConfig
AppConfig(domains) == [domains |-> domains]

-----------------------------------------------------------------------------
(* src/routing.rs                                                          *)

RouteOk(targets) == [kind |-> "Ok", targets |-> targets]
RouteErr(e) == [kind |-> e, targets |-> None]

\* find_best_route's loop keeping the first of the tied routes: the tie branch
\* does not raise the flag
RECURSIVE BestRouteLoop_FirstWins(_, _, _, _, _)
BestRouteLoop_FirstWins(routes, path, i, best_match, ambiguous) ==
    IF i > Len(routes)
    THEN [best_match |-> best_match, ambiguous |-> ambiguous]
    ELSE LET current == get_match_score(routes[i].path, path)
         IN  IF current = None
             THEN BestRouteLoop_FirstWins(routes, path, i + 1, best_match, ambiguous)
             ELSE IF best_match = None \/ ScoreGt(current[1], best_match[1].score)
                  THEN BestRouteLoop_FirstWins(routes, path, i + 1,
                           Some([score |-> current[1], route |-> routes[i]]), FALSE)
                  ELSE BestRouteLoop_FirstWins(routes, path, i + 1, best_match, ambiguous)

\* find_best_route's loop with the flag left raised when a better route follows
\* a tie
RECURSIVE BestRouteLoop_StickyFlag(_, _, _, _, _)
BestRouteLoop_StickyFlag(routes, path, i, best_match, ambiguous) ==
    IF i > Len(routes)
    THEN [best_match |-> best_match, ambiguous |-> ambiguous]
    ELSE LET current == get_match_score(routes[i].path, path)
         IN  IF current = None
             THEN BestRouteLoop_StickyFlag(routes, path, i + 1, best_match, ambiguous)
             ELSE IF best_match = None \/ ScoreGt(current[1], best_match[1].score)
                  THEN BestRouteLoop_StickyFlag(routes, path, i + 1,
                           Some([score |-> current[1], route |-> routes[i]]), ambiguous)
                  ELSE BestRouteLoop_StickyFlag(routes, path, i + 1, best_match,
                           ambiguous \/ current[1] = best_match[1].score)

\* the for loop of find_best_route from route i on; best_match is
\* Option<(MatchScore, &Route)>, ambiguous the flag of the same name
RECURSIVE BestRouteLoop(_, _, _, _, _)
BestRouteLoop(routes, path, i, best_match, ambiguous) ==
    IF i > Len(routes)
    THEN [best_match |-> best_match, ambiguous |-> ambiguous]
    ELSE LET current == get_match_score(routes[i].path, path)
         IN  IF current = None
             THEN BestRouteLoop(routes, path, i + 1, best_match, ambiguous)
             ELSE IF best_match = None
                  THEN BestRouteLoop(routes, path, i + 1,
                                     Some([score |-> current[1], route |-> routes[i]]), ambiguous)
                  ELSE IF ScoreGt(current[1], best_match[1].score)
                       THEN BestRouteLoop(routes, path, i + 1,
                                          Some([score |-> current[1], route |-> routes[i]]), FALSE)
                       ELSE IF current[1] = best_match[1].score
                            THEN BestRouteLoop(routes, path, i + 1, best_match, TRUE)
                            ELSE BestRouteLoop(routes, path, i + 1, best_match, ambiguous)

find_best_route(path, domain_config) ==
    LET end == BestRouteLoop(domain_config.routes, path, 1, None, FALSE)
    IN  IF end.ambiguous
        THEN RouteErr("AmbiguousRoute")
        ELSE RouteOk(IF end.best_match = None THEN None
                     ELSE Some(end.best_match[1].route.targets))

find_target_urls(host, path, cfg) ==
    IF host \notin DOMAIN cfg.domains
    THEN RouteErr("HostNotFound")
    ELSE find_best_route(path, cfg.domains[host])

\* proxy_handler's use of the router:
\* routing::find_target_urls(host_str, &path, &state)?.ok_or(VaneError::NoRouteFound)?
resolve_targets(host, path, cfg) ==
    LET found == find_target_urls(host, path, cfg)
    IN  IF found.kind = "Ok" /\ found.targets = None
        THEN RouteErr("NoRouteFound")
        ELSE found

-----------------------------------------------------------------------------
(* Values of the pipeline model.                                           *)

\* the tasks that serve requests
Tasks == {1}

HostH == <<"h">>
HostZ == <<"z">>
HostHPort == <<"h", ":", "8">>

IP1 == <<"1">>
IP2 == <<"2">>
SpoofIP == <<"9">>
ClientIPs == {IP1, IP2}

Listeners == {"http", "https", "h3"}

\* proxy.rs: IP_HEADERS_TO_CLEAN
IP_HEADERS_TO_CLEAN == <<"x-real-ip", "x-forwarded-for", "x-forwarded", "forwarded-for", "forwarded">>

HeaderNames ==
    { "host", "x-forwarded-host", "origin", "access-control-request-method",
      "x-real-ip", "x-forwarded-for", "x-forwarded", "forwarded-for", "forwarded",
      "location", "strict-transport-security", "alt-svc", "vary",
      "access-control-allow-origin", "access-control-allow-headers",
      "access-control-allow-methods" }

\* HeaderName::from_static / from_bytes: header names are stored lower-cased
HeaderNameOf(name) ==
    LET lower == ("X-Forwarded-For" :> "x-forwarded-for")
              @@ ("Alt-Svc" :> "alt-svc")
              @@ ("Strict-Transport-Security" :> "strict-transport-security")
              @@ ("Location" :> "location")
    IN  IF name \in DOMAIN lower THEN lower[name] ELSE name

\* HeaderMap::new()
NoHeaders == [n \in HeaderNames |-> <<>>]

\* HeaderMap::insert: replaces every value of the name
HeaderInsert(headers, name, value) == [headers EXCEPT ![HeaderNameOf(name)] = <<value>>]

\* HeaderMap::append: adds a value to the name
HeaderAppend(headers, name, value) == [headers EXCEPT ![HeaderNameOf(name)] = Append(@, value)]

\* HeaderMap::remove: drops every value of the name
HeaderRemove(headers, name) == [headers EXCEPT ![HeaderNameOf(name)] = <<>>]

\* HeaderMap::get: the first value of the name
HeaderGet(headers, name) ==
    IF headers[HeaderNameOf(name)] = <<>> THEN None ELSE Some(headers[HeaderNameOf(name)][1])

-----------------------------------------------------------------------------
(* Host resolution: the two extractors the handlers use.                   *)

\* axum_extra::extract::Host's reading of a Forwarded header: the host=
\* parameter of its first element
ForwardedHost(value) ==
    IF value # <<>> /\ Head(value) = "host=" THEN Some(Tail(value)) ELSE None

\* axum_extra::extract::Host, used by every middleware: the Forwarded
\* header's host, else X-Forwarded-Host, else Host, else the URI authority;
\* the value is kept as received (a port is not removed)
ExtractHost(request) ==
    LET fwdHdr == HeaderGet(request.headers, "forwarded")
    IN  IF fwdHdr # None /\ ForwardedHost(fwdHdr[1]) # None
        THEN ForwardedHost(fwdHdr[1])
        ELSE IF HeaderGet(request.headers, "x-forwarded-host") # None
             THEN HeaderGet(request.headers, "x-forwarded-host")
             ELSE IF HeaderGet(request.headers, "host") # None
                  THEN HeaderGet(request.headers, "host")
                  ELSE request.authority

\* headers::Host::hostname(): the Host header's value without its port
RECURSIVE hostname(_)
hostname(host) ==
    IF host = <<>> \/ Head(host) = ":" THEN <<>>
    ELSE <<Head(host)>> \o hostname(Tail(host))

\* TypedHeader<Host>, used by proxy_handler: the Host header only
TypedHeaderHost(request) == HeaderGet(request.headers, "host")

-----------------------------------------------------------------------------
(* src/server/mod.rs: the limiters built at startup.                       *)

\* a rate_limit rule
Rule(period, requests) == [period |-> period, requests |-> requests]
Period(value, unit) == [value |-> value, unit |-> unit]
RouteRule(path, rule) == [path |-> path, rule |-> rule]

parse_std_duration(period) ==
    IF period.unit = "s" THEN Some(period.value)
    ELSE IF period.unit = "m" THEN Some(period.value * 60)
    ELSE IF period.unit = "h" THEN Some(period.value * 60 * 60)
    ELSE None

\* RateLimiter::keyed(quota.allow_burst(burst)): a client never seen holds a
\* full bucket
Limiter(burst) ==
    [unlimited |-> FALSE, burst |-> burst, tokens |-> [ip \in ClientIPs |-> burst]]

\* RateLimiter::keyed(Quota::per_second(u32::MAX)): a bucket that no run of
\* the model can empty
UnlimitedLimiter ==
    [unlimited |-> TRUE, burst |-> 0, tokens |-> [ip \in ClientIPs |-> 0]]

\* the conditions under which a rule yields a limiter
RuleEnabled(rule) ==
    /\ parse_std_duration(rule.period) # None
    /\ rule.requests # 0
    /\ parse_std_duration(rule.period)[1] # 0

\* the loop over a domain's route (or override) rules: HashMap::insert of
\* format!("{}{}", hostname, rule.path) for every enabled rule
RECURSIVE InsertRules(_, _, _, _)
InsertRules(map, host, rules, i) ==
    IF i > Len(rules) THEN map
    ELSE InsertRules(
            IF RuleEnabled(rules[i].rule)
            THEN ((host \o rules[i].path) :> Limiter(rules[i].rule.requests)) @@ map
            ELSE map,
            host, rules, i + 1)

\* build_route_limiters, one of its two maps: kind is "routes" or
\* "overrides"; order is the iteration order of config.domains
RECURSIVE BuildLimiterMap(_, _, _, _, _)
BuildLimiterMap(cfg, order, kind, i, map) ==
    IF i > Len(order) THEN map
    ELSE BuildLimiterMap(cfg, order, kind, i + 1,
            InsertRules(map, order[i],
                        IF kind = "routes"
                        THEN cfg.domains[order[i]].rate_limit.routes
                        ELSE cfg.domains[order[i]].rate_limit.overrides,
                        1))

build_route_limiters(cfg, order) ==
    [routes    |-> BuildLimiterMap(cfg, order, "routes", 1, <<>>),
     overrides |-> BuildLimiterMap(cfg, order, "overrides", 1, <<>>)]

\* build_global_limiter: the first enabled default rule met in the
\* iteration over config.domains gives the one limiter of every domain;
\* an unparsable period ends startup with an error (None)
RECURSIVE GlobalLimiterLoop(_, _, _)
GlobalLimiterLoop(cfg, order, i) ==
    IF i > Len(order) THEN Some(UnlimitedLimiter)
    ELSE LET default == cfg.domains[order[i]].rate_limit.default
         IN  IF default = None THEN GlobalLimiterLoop(cfg, order, i + 1)
             ELSE IF parse_std_duration(default[1].period) = None THEN None
             ELSE IF RuleEnabled(default[1]) THEN Some(Limiter(default[1].requests))
             ELSE GlobalLimiterLoop(cfg, order, i + 1)

build_global_limiter(cfg, order) == GlobalLimiterLoop(cfg, order, 1)

-----------------------------------------------------------------------------
(* src/ratelimit.rs                                                        *)

\* the rate limiter's own get_match_score
RECURSIVE RlScoreLoop(_, _, _, _)
RlScoreLoop(pattern_parts, path_parts, i, exact_parts) ==
    IF i > Len(pattern_parts)
    THEN Some(MatchScore(exact_parts, Len(pattern_parts)))
    ELSE IF pattern_parts[i] = <<"*">>
         THEN RlScoreLoop(pattern_parts, path_parts, i + 1, exact_parts)
         ELSE IF i > Len(path_parts) \/ pattern_parts[i] # path_parts[i]
              THEN None
              ELSE RlScoreLoop(pattern_parts, path_parts, i + 1, exact_parts + 1)

\* the rate limiter's get_match_score without the early return on a pattern
\* longer than the path
rl_get_match_score_NoLengthCheck(pattern, path) ==
    RlScoreLoop(split_parts(pattern), split_parts(path), 1, 0)

rl_get_match_score(pattern, path) ==
    IF Len(split_parts(pattern)) > Len(split_parts(path))
    THEN None
    ELSE RlScoreLoop(split_parts(pattern), split_parts(path), 1, 0)

\* find_best_match's loop over limiters.iter(): order is the map's
\* iteration order, best the Option<FoundMatch> kept so far
RECURSIVE BestMatchLoop(_, _, _, _)
BestMatchLoop(order, full_path, i, best) ==
    IF i > Len(order) THEN best
    ELSE LET score == rl_get_match_score(order[i], full_path)
         IN  IF score = None
             THEN BestMatchLoop(order, full_path, i + 1, best)
             ELSE IF best = None \/ ScoreGt(score[1], best[1].score)
                  THEN BestMatchLoop(order, full_path, i + 1,
                                     Some([pattern |-> order[i], score |-> score[1]]))
                  ELSE BestMatchLoop(order, full_path, i + 1, best)

\* find_best_match: the pattern (key) of the limiter to apply, if any
find_best_match(order, full_path) ==
    LET best == BestMatchLoop(order, full_path, 1, None)
    IN  IF best = None THEN None ELSE Some(best[1].pattern)

\* RateLimiter::check_key(&ip).is_ok()
Admits(limiter, ip) == limiter.unlimited \/ limiter.tokens[ip] > 0

\* the state of the limiter after check_key(&ip): a cell is taken only when
\* the check succeeds
AfterCheck(limiter, ip) ==
    IF ~limiter.unlimited /\ limiter.tokens[ip] > 0
    THEN [limiter EXCEPT !.tokens[ip] = @ - 1]
    ELSE limiter

\* one replenishment interval of the limiter passes for the client
AfterReplenish(limiter, ip) ==
    IF ~limiter.unlimited /\ limiter.tokens[ip] < limiter.burst
    THEN [limiter EXCEPT !.tokens[ip] = @ + 1]
    ELSE limiter

-----------------------------------------------------------------------------
(* Requests and responses.                                                 *)

\* an inbound request as decoded by a listener; without query and with an
\* empty body unless stated otherwise
Request(listener, ip, method, authority, path, headers) ==
    [listener |-> listener, ip |-> ip, method |-> method,
     authority |-> authority, path |-> path, headers |-> headers,
     query |-> None, body |-> <<>>]

\* a response: status, who produced it ("vane" or the target), its headers,
\* and the VaneError it was converted from, if any
Response(status, from, error) ==
    [status |-> status, from |-> from, headers |-> NoHeaders, error |-> error]

VaneError(kind, cause) == [kind |-> kind, cause |-> cause]

\* error::serve_status_page(status, ..): the status is the argument's
serve_status_page(status) == Response(status, "vane", None)

\* the rejection of an extractor (Host, TypedHeader<Host>): 400
ExtractorRejection == Response(400, "vane", None)

\* IntoResponse for VaneError::AmbiguousRoute: a 500 status page
ambiguous_route_response(error) ==
    [serve_status_page(500) EXCEPT !.error = Some(error)]

\* IntoResponse for VaneError
into_response(error) ==
    IF error.kind = "HostNotFound" THEN [serve_status_page(400) EXCEPT !.error = Some(error)]
    ELSE IF error.kind = "NoRouteFound" THEN [serve_status_page(404) EXCEPT !.error = Some(error)]
    ELSE IF error.kind = "BadGateway" THEN [serve_status_page(502) EXCEPT !.error = Some(error)]
    ELSE ambiguous_route_response(error)

-----------------------------------------------------------------------------
(* src/server/*.rs: the layers of each listener, outermost first (the      *)
(* layer added last to the Router runs first on the request).              *)

Pipeline(listener) ==
    IF listener = "http"
    THEN << "http_request_handler", "rate_limit_handler", "cors_handler",
            "method_filter_handler", "proxy_handler" >>
    ELSE IF listener = "https"
    THEN << "hsts_handler", "alt_svc_handler", "rate_limit_handler", "cors_handler",
            "method_filter_handler", "inject_host_header", "proxy_handler" >>
    ELSE << "hsts_handler", "rate_limit_handler", "cors_handler",
            "inject_host_header", "proxy_handler" >>

IndexOf(seq, x) == CHOOSE i \in 1..Len(seq) : seq[i] = x

\* next.run(req): the handler inside the given one
NextHandler(listener, handler) ==
    Pipeline(listener)[IndexOf(Pipeline(listener), handler) + 1]

\* the listeners that startup spawns
StartedListeners(cfg) ==
    {"http"}
    \cup (IF \E h \in DOMAIN cfg.domains : cfg.domains[h].https THEN {"https"} ELSE {})
    \cup (IF \E h \in DOMAIN cfg.domains : cfg.domains[h].https /\ cfg.domains[h].http3
          THEN {"h3"} ELSE {})

\* state.config.domains.get(&host)
DomainOf(cfg, host) ==
    IF host # None /\ host[1] \in DOMAIN cfg.domains
    THEN Some(cfg.domains[host[1]]) ELSE None

-----------------------------------------------------------------------------
(* src/middleware.rs: what each handler does to the response of next.run.  *)

hsts_response(cfg, request, res) ==
    LET domain_config == DomainOf(cfg, ExtractHost(request))
    IN  IF domain_config # None /\ domain_config[1].https /\ domain_config[1].hsts
        THEN [res EXCEPT !.headers = HeaderInsert(@, "Strict-Transport-Security",
                                                  <<"max-age=31536000; includeSubDomains">>)]
        ELSE res

alt_svc_response(cfg, request, res) ==
    LET domain_config == DomainOf(cfg, ExtractHost(request))
    IN  IF domain_config # None /\ domain_config[1].https /\ domain_config[1].http3
        THEN [res EXCEPT !.headers = HeaderInsert(@, "Alt-Svc", <<"h3=:https_port; ma=86400">>)]
        ELSE res

\* cors_config.origins.get(&origin).or_else(|| cors_config.origins.get("*"))
allowed_methods_str(cors_config, origin) ==
    IF origin \in DOMAIN cors_config.origins THEN Some(cors_config.origins[origin])
    ELSE IF <<"*">> \in DOMAIN cors_config.origins THEN Some(cors_config.origins[<<"*">>])
    ELSE None

\* the cors_config and origin of a request that the CORS layer acts on
CorsOf(cfg, request) ==
    LET domain_config == DomainOf(cfg, ExtractHost(request))
    IN  IF domain_config = None THEN None ELSE domain_config[1].cors

cors_response(cfg, request, res) ==
    LET cors_config == CorsOf(cfg, request)
        origin      == HeaderGet(request.headers, "origin")
    IN  IF cors_config # None /\ origin # None
           /\ allowed_methods_str(cors_config[1], origin[1]) # None
        THEN [res EXCEPT !.headers =
                 HeaderAppend(HeaderInsert(@, "access-control-allow-origin", origin[1]),
                              "vary", <<"Origin">>)]
        ELSE res

\* the response as one handler returns it, given the response of next.run
ResponsePhase(cfg, request, handler, res) ==
    IF handler = "hsts_handler" THEN hsts_response(cfg, request, res)
    ELSE IF handler = "alt_svc_handler" THEN alt_svc_response(cfg, request, res)
    ELSE IF handler = "cors_handler" THEN cors_response(cfg, request, res)
    ELSE res

\* the response of handler number k + 1 on its way out through handlers
\* k, k - 1, .., 1
RECURSIVE WrapFrom(_, _, _, _)
WrapFrom(cfg, request, k, res) ==
    IF k = 0 THEN res
    ELSE WrapFrom(cfg, request, k - 1,
                  ResponsePhase(cfg, request, Pipeline(request.listener)[k], res))

\* the response the client receives when `handler` returns `res`
WrapResponse(cfg, request, handler, res) ==
    WrapFrom(cfg, request, IndexOf(Pipeline(request.listener), handler) - 1, res)

-----------------------------------------------------------------------------
(* The handlers as actions of a task.                                      *)

vars == <<mPattern, mPath, mScore, rPath, rHost, rResult, quota, boot, tls, pages, acme, renewal, config, iter_order, shield,
          configurable_limiter, route_limiters, override_limiters, req, pc, ext_addr,
          consulted, visited, fwd, attempts, resp>>

staticVars == <<config, iter_order>>
taskVars == <<req, pc, ext_addr, consulted, visited, fwd, attempts, resp>>
limiterVars == <<shield, configurable_limiter, route_limiters, override_limiters>>
pureVars == <<mPattern, mPath, mScore, rPath, rHost, rResult, quota, boot, tls,
             pages, acme, renewal>>

\* the handler returns `res` without calling next.run
Reply(r, handler, res) ==
    /\ resp' = [resp EXCEPT ![r] = Append(@, WrapResponse(config, req[r][1], handler, res))]
    /\ pc' = [pc EXCEPT ![r] = "done"]

\* the handler calls next.run
CallNext(r, handler) ==
    /\ pc' = [pc EXCEPT ![r] = NextHandler(req[r][1].listener, handler)]
    /\ UNCHANGED resp

Enter(r, handler) ==
    /\ pc[r] = handler
    /\ visited' = [visited EXCEPT ![r] = Append(@, handler)]

\* a limiter check as recorded for the request
Check(layer, key, admitted) == [layer |-> layer, key |-> key, admitted |-> admitted]

\* middleware::http_request_handler
HttpRequestHandler(r) ==
    /\ Enter(r, "http_request_handler")
    /\ LET request == req[r][1]
           host == ExtractHost(request)
           domain_config == DomainOf(config, host)
       IN  IF host = None THEN Reply(r, "http_request_handler", ExtractorRejection)
           ELSE IF domain_config = None THEN CallNext(r, "http_request_handler")
           ELSE IF domain_config[1].http_options = "allow"
                THEN CallNext(r, "http_request_handler")
           ELSE IF domain_config[1].http_options = "reject"
                THEN Reply(r, "http_request_handler", serve_status_page(426))
           ELSE Reply(r, "http_request_handler",
                      [Response(301, "vane", None) EXCEPT !.headers =
                          HeaderInsert(@, "Location",
                                       <<"https://">> \o host[1] \o request.path)])
    /\ UNCHANGED <<staticVars, limiterVars, pureVars, req, ext_addr, consulted, fwd, attempts>>

\* middleware::hsts_handler, up to next.run
HstsHandler(r) ==
    /\ Enter(r, "hsts_handler")
    /\ IF ExtractHost(req[r][1]) = None
       THEN Reply(r, "hsts_handler", ExtractorRejection)
       ELSE CallNext(r, "hsts_handler")
    /\ UNCHANGED <<staticVars, limiterVars, pureVars, req, ext_addr, consulted, fwd, attempts>>

\* middleware::alt_svc_handler, up to next.run
AltSvcHandler(r) ==
    /\ Enter(r, "alt_svc_handler")
    /\ IF ExtractHost(req[r][1]) = None
       THEN Reply(r, "alt_svc_handler", ExtractorRejection)
       ELSE CallNext(r, "alt_svc_handler")
    /\ UNCHANGED <<staticVars, limiterVars, pureVars, req, ext_addr, consulted, fwd, attempts>>

RateLimitHandler_ConfiguredHostsOnly(r) ==
    /\ Enter(r, "rate_limit_handler")
    /\ LET request == req[r][1]
           host == ExtractHost(request)
           ip == request.ip
       IN  IF host = None
           THEN /\ Reply(r, "rate_limit_handler", ExtractorRejection)
                /\ UNCHANGED <<shield, ext_addr, consulted>>
           ELSE IF DomainOf(config, host) = None
           THEN /\ CallNext(r, "rate_limit_handler")
                /\ ext_addr' = [ext_addr EXCEPT ![r] = Some(ip)]
                /\ UNCHANGED <<shield, consulted>>
           ELSE /\ consulted' = [consulted EXCEPT ![r] =
                                    Append(@, Check("shield", <<>>, shield[ip] > 0))]
                /\ IF shield[ip] = 0
                   THEN /\ Reply(r, "rate_limit_handler", serve_status_page(429))
                        /\ UNCHANGED <<shield, ext_addr>>
                   ELSE /\ shield' = [shield EXCEPT ![ip] = @ - 1]
                        /\ ext_addr' = [ext_addr EXCEPT ![r] = Some(ip)]
                        /\ pc' = [pc EXCEPT ![r] = "rl_override"]
                        /\ UNCHANGED resp
    /\ UNCHANGED <<staticVars, configurable_limiter, route_limiters, override_limiters,
                   pureVars, req, fwd, attempts>>

\* middleware::rate_limit_handler: the shield check and the insertion of the
\* client address into the request extensions
RateLimitHandler(r) ==
    /\ Enter(r, "rate_limit_handler")
    /\ LET request == req[r][1]
           host == ExtractHost(request)
           ip == request.ip
       IN  IF host = None
           THEN /\ Reply(r, "rate_limit_handler", ExtractorRejection)
                /\ UNCHANGED <<shield, ext_addr, consulted>>
           ELSE /\ consulted' = [consulted EXCEPT ![r] =
                                    Append(@, Check("shield", <<>>, shield[ip] > 0))]
                /\ IF shield[ip] = 0
                   THEN /\ Reply(r, "rate_limit_handler", serve_status_page(429))
                        /\ UNCHANGED <<shield, ext_addr>>
                   ELSE /\ shield' = [shield EXCEPT ![ip] = @ - 1]
                        /\ ext_addr' = [ext_addr EXCEPT ![r] = Some(ip)]
                        /\ pc' = [pc EXCEPT ![r] =
                                    IF DomainOf(config, host) # None THEN "rl_override"
                                    ELSE NextHandler(request.listener, "rate_limit_handler")]
                        /\ UNCHANGED resp
    /\ UNCHANGED <<staticVars, configurable_limiter, route_limiters, override_limiters,
                   pureVars, req, fwd, attempts>>

\* format!("{}{}", host, &path)
full_path_key(request) == ExtractHost(request)[1] \o request.path

RateLimitOverride_FallsThrough(r) ==
    /\ pc[r] = "rl_override"
    /\ LET request == req[r][1]
           ip == request.ip
           found_match == find_best_match(iter_order.overrides, full_path_key(request))
       IN  IF found_match = None
           THEN /\ pc' = [pc EXCEPT ![r] = "rl_route"]
                /\ UNCHANGED <<resp, consulted, override_limiters>>
           ELSE /\ consulted' = [consulted EXCEPT ![r] =
                        Append(@, Check("override", found_match[1],
                                        Admits(override_limiters[found_match[1]], ip)))]
                /\ override_limiters' = [override_limiters EXCEPT ![found_match[1]] =
                                            AfterCheck(@, ip)]
                /\ IF Admits(override_limiters[found_match[1]], ip)
                   THEN pc' = [pc EXCEPT ![r] = "rl_route"] /\ UNCHANGED resp
                   ELSE Reply(r, "rate_limit_handler", serve_status_page(429))
    /\ UNCHANGED <<staticVars, shield, configurable_limiter, route_limiters,
                   pureVars, req, ext_addr, visited, fwd, attempts>>

RateLimitOverride_ChargesRoutes(r) ==
    /\ pc[r] = "rl_override"
    /\ LET request == req[r][1]
           ip == request.ip
           found_match == find_best_match(iter_order.overrides, full_path_key(request))
       IN  IF found_match = None
           THEN /\ pc' = [pc EXCEPT ![r] = "rl_route"]
                /\ UNCHANGED <<resp, consulted, override_limiters, route_limiters>>
           ELSE /\ consulted' = [consulted EXCEPT ![r] =
                        Append(@, Check("override", found_match[1],
                                        Admits(override_limiters[found_match[1]], ip)))]
                /\ override_limiters' = [override_limiters EXCEPT ![found_match[1]] =
                                            AfterCheck(@, ip)]
                /\ route_limiters' = [key \in DOMAIN route_limiters |->
                                         AfterCheck(route_limiters[key], ip)]
                /\ IF Admits(override_limiters[found_match[1]], ip)
                   THEN CallNext(r, "rate_limit_handler")
                   ELSE Reply(r, "rate_limit_handler", serve_status_page(429))
    /\ UNCHANGED <<staticVars, shield, configurable_limiter,
                   pureVars, req, ext_addr, visited, fwd, attempts>>

\* rate_limit_handler: the override rule
RateLimitOverride(r) ==
    /\ pc[r] = "rl_override"
    /\ LET request == req[r][1]
           ip == request.ip
           found_match == find_best_match(iter_order.overrides, full_path_key(request))
       IN  IF found_match = None
           THEN /\ pc' = [pc EXCEPT ![r] = "rl_route"]
                /\ UNCHANGED <<resp, consulted, override_limiters>>
           ELSE /\ consulted' = [consulted EXCEPT ![r] =
                        Append(@, Check("override", found_match[1],
                                        Admits(override_limiters[found_match[1]], ip)))]
                /\ override_limiters' = [override_limiters EXCEPT ![found_match[1]] =
                                            AfterCheck(@, ip)]
                /\ IF Admits(override_limiters[found_match[1]], ip)
                   THEN CallNext(r, "rate_limit_handler")
                   ELSE Reply(r, "rate_limit_handler", serve_status_page(429))
    /\ UNCHANGED <<staticVars, shield, configurable_limiter, route_limiters,
                   pureVars, req, ext_addr, visited, fwd, attempts>>

RateLimitRoute_NoReturn(r) ==
    /\ pc[r] = "rl_route"
    /\ LET request == req[r][1]
           ip == request.ip
           found_match == find_best_match(iter_order.routes, full_path_key(request))
       IN  IF found_match = None
           THEN /\ pc' = [pc EXCEPT ![r] = "rl_default"]
                /\ UNCHANGED <<resp, consulted, route_limiters>>
           ELSE /\ consulted' = [consulted EXCEPT ![r] =
                        Append(@, Check("route", found_match[1],
                                        Admits(route_limiters[found_match[1]], ip)))]
                /\ route_limiters' = [route_limiters EXCEPT ![found_match[1]] =
                                         AfterCheck(@, ip)]
                /\ pc' = [pc EXCEPT ![r] = "rl_default"]
                /\ UNCHANGED resp
    /\ UNCHANGED <<staticVars, shield, configurable_limiter, override_limiters,
                   pureVars, req, ext_addr, visited, fwd, attempts>>

\* rate_limit_handler: the route rule
RateLimitRoute(r) ==
    /\ pc[r] = "rl_route"
    /\ LET request == req[r][1]
           ip == request.ip
           found_match == find_best_match(iter_order.routes, full_path_key(request))
       IN  IF found_match = None
           THEN /\ pc' = [pc EXCEPT ![r] = "rl_default"]
                /\ UNCHANGED <<resp, consulted, route_limiters>>
           ELSE /\ consulted' = [consulted EXCEPT ![r] =
                        Append(@, Check("route", found_match[1],
                                        Admits(route_limiters[found_match[1]], ip)))]
                /\ route_limiters' = [route_limiters EXCEPT ![found_match[1]] =
                                         AfterCheck(@, ip)]
                /\ IF Admits(route_limiters[found_match[1]], ip)
                   THEN pc' = [pc EXCEPT ![r] = "rl_default"] /\ UNCHANGED resp
                   ELSE Reply(r, "rate_limit_handler", serve_status_page(429))
    /\ UNCHANGED <<staticVars, shield, configurable_limiter, override_limiters,
                   pureVars, req, ext_addr, visited, fwd, attempts>>

RateLimitDefault_OneBucket(r) ==
    /\ pc[r] = "rl_default"
    /\ LET ip == req[r][1].ip
       IN  /\ consulted' = [consulted EXCEPT ![r] =
                   Append(@, Check("default", <<>>, Admits(configurable_limiter, ip)))]
           /\ configurable_limiter' =
                  IF Admits(configurable_limiter, ip) /\ ~configurable_limiter.unlimited
                  THEN [configurable_limiter EXCEPT !.tokens =
                           [c \in DOMAIN @ |-> IF @[c] > 0 THEN @[c] - 1 ELSE 0]]
                  ELSE configurable_limiter
           /\ IF Admits(configurable_limiter, ip)
              THEN CallNext(r, "rate_limit_handler")
              ELSE Reply(r, "rate_limit_handler", serve_status_page(429))
    /\ UNCHANGED <<staticVars, shield, route_limiters, override_limiters,
                   pureVars, req, ext_addr, visited, fwd, attempts>>

\* rate_limit_handler: the default rule
RateLimitDefault(r) ==
    /\ pc[r] = "rl_default"
    /\ LET ip == req[r][1].ip
       IN  /\ consulted' = [consulted EXCEPT ![r] =
                   Append(@, Check("default", <<>>, Admits(configurable_limiter, ip)))]
           /\ configurable_limiter' = AfterCheck(configurable_limiter, ip)
           /\ IF Admits(configurable_limiter, ip)
              THEN CallNext(r, "rate_limit_handler")
              ELSE Reply(r, "rate_limit_handler", serve_status_page(429))
    /\ UNCHANGED <<staticVars, shield, route_limiters, override_limiters,
                   pureVars, req, ext_addr, visited, fwd, attempts>>

\* s.trim().to_uppercase() on the entries of a comma-separated method list
NormalizeMethod(token) ==
    LET table == (" post" :> "POST") @@ ("get" :> "GET") @@ (" GET" :> "GET")
    IN  IF token \in DOMAIN table THEN table[token] ELSE token

\* the HashSet<Method> that method_filter_handler parses from methods.allow
allowed_methods(allow) == {NormalizeMethod(allow[i]) : i \in 1..Len(allow)} \ {""}

\* middleware::method_filter_handler
MethodFilterHandler(r) ==
    /\ Enter(r, "method_filter_handler")
    /\ LET request == req[r][1]
           host == ExtractHost(request)
           domain_config == DomainOf(config, host)
       IN  IF host = None THEN Reply(r, "method_filter_handler", ExtractorRejection)
           ELSE IF /\ domain_config # None
                   /\ domain_config[1].methods # None
                   /\ domain_config[1].methods[1].allow # <<"*">>
                   /\ request.method \notin allowed_methods(domain_config[1].methods[1].allow)
                THEN Reply(r, "method_filter_handler", serve_status_page(405))
                ELSE CallNext(r, "method_filter_handler")
    /\ UNCHANGED <<staticVars, limiterVars, pureVars, req, ext_addr, consulted, fwd, attempts>>

\* cors_handler's requested_method_allowed
requested_method_allowed(methods_str, requested) ==
    \/ methods_str = <<"*">>
    \/ methods_str = <<>>
    \/ \E i \in 1..Len(methods_str) :
          NormalizeMethod(methods_str[i]) = NormalizeMethod(requested)

\* cors_handler's answer to a preflight request
preflight_response(cors_config, request) ==
    LET origin == HeaderGet(request.headers, "origin")[1]
        methods_str == allowed_methods_str(cors_config, origin)
        requested == HeaderGet(request.headers, "access-control-request-method")
    IN  IF methods_str # None /\ requested # None
           /\ requested_method_allowed(methods_str[1], requested[1][1])
        THEN [Response(200, "vane", None) EXCEPT !.headers =
                HeaderInsert(
                  HeaderInsert(
                    HeaderInsert(
                      HeaderInsert(@, "access-control-allow-origin", origin),
                      "access-control-allow-headers", <<"*">>),
                    "access-control-allow-methods",
                    IF methods_str[1] = <<>> THEN <<"*">> ELSE methods_str[1]),
                  "vary",
                  <<"Origin, Access-Control-Request-Method, Access-Control-Request-Headers">>)]
        ELSE Response(200, "vane", None)

\* middleware::cors_handler, up to next.run
CorsHandler(r) ==
    /\ Enter(r, "cors_handler")
    /\ LET request == req[r][1]
           host == ExtractHost(request)
           cors_config == CorsOf(config, request)
           origin == HeaderGet(request.headers, "origin")
           is_preflight ==
               /\ request.method = "OPTIONS"
               /\ HeaderGet(request.headers, "access-control-request-method") # None
       IN  IF host = None THEN Reply(r, "cors_handler", ExtractorRejection)
           ELSE IF cors_config = None \/ origin = None THEN CallNext(r, "cors_handler")
           ELSE IF is_preflight
                THEN Reply(r, "cors_handler", preflight_response(cors_config[1], request))
                ELSE CallNext(r, "cors_handler")
    /\ UNCHANGED <<staticVars, limiterVars, pureVars, req, ext_addr, consulted, fwd, attempts>>

\* middleware::inject_host_header
InjectHostHeader(r) ==
    /\ Enter(r, "inject_host_header")
    /\ LET request == req[r][1]
       IN  req' = [req EXCEPT ![r] =
                     IF HeaderGet(request.headers, "host") = None /\ request.authority # None
                     THEN Some([request EXCEPT !.headers =
                                   HeaderInsert(@, "host", request.authority[1])])
                     ELSE Some(request)]
    /\ CallNext(r, "inject_host_header")
    /\ UNCHANGED <<staticVars, limiterVars, pureVars, ext_addr, consulted, fwd, attempts>>

-----------------------------------------------------------------------------
(* src/proxy.rs                                                            *)

\* the loop over IP_HEADERS_TO_CLEAN: attempt_parts.headers.remove(*header)
RECURSIVE CleanIpHeaders(_, _)
CleanIpHeaders(headers, i) ==
    IF i > Len(IP_HEADERS_TO_CLEAN) THEN headers
    ELSE CleanIpHeaders(HeaderRemove(headers, IP_HEADERS_TO_CLEAN[i]), i + 1)

attempt_headers_NoClean(headers, client_ip) ==
    IF client_ip = None THEN headers
    ELSE HeaderAppend(headers, "X-Forwarded-For", client_ip[1])

\* the headers of an attempt: the inbound headers without the IP headers,
\* with X-Forwarded-For set to the client IP when the extension holds one
attempt_headers(headers, client_ip) ==
    IF client_ip = None
    THEN CleanIpHeaders(headers, 1)
    ELSE HeaderInsert(CleanIpHeaders(headers, 1), "X-Forwarded-For", client_ip[1])

\* the text of a configured target: targets are named by one symbol, which
\* is their text, except the two that end in slashes
TargetText(target) ==
    IF target = "A/" THEN <<"A", "/">>
    ELSE IF target = "C//" THEN <<"C", "/", "/">>
    ELSE <<target>>

\* str::strip_suffix('/').unwrap_or(..): one trailing slash is removed
strip_suffix(text) ==
    IF Len(text) > 0 /\ text[Len(text)] = "/" THEN SubSeq(text, 1, Len(text) - 1)
    ELSE text

\* req.uri().path_and_query().map(|pq| pq.as_str()): the path, then `?` and
\* the query when there is one
original_path_and_query(request) ==
    IF request.query = None THEN request.path
    ELSE request.path \o <<"?">> \o request.query[1]

\* format!("{}{}", target_url.strip_suffix('/').unwrap_or(&target_url),
\*         &original_path_and_query)
full_target_url(target, path_and_query) ==
    strip_suffix(TargetText(target)) \o path_and_query

\* the body of an attempt taken from what is left of the inbound stream: all
\* of it for the first attempt, nothing afterwards
attempt_body_FromStream(body_bytes, idx) ==
    IF idx = 1 THEN body_bytes ELSE <<>>

\* Body::from(body_bytes.clone()): the buffered bytes, for every attempt
attempt_body(body_bytes, idx) == body_bytes

\* the request sent to a target
Attempt(target, request, client_ip, body) ==
    [target |-> target, method |-> request.method, path |-> request.path,
     url |-> full_target_url(target, original_path_and_query(request)),
     version |-> "HTTP/1.1", headers |-> attempt_headers(request.headers, client_ip),
     body |-> body]

\* what can happen to an attempt: the constructed URL does not parse, the
\* transport fails, or the target answers with a status
Outcome(kind, status) == [kind |-> kind, status |-> status]

\* the statuses a target answers with in the model: 2xx, 4xx, the two ends of
\* the 4xx/5xx boundary, and a status above the 5xx class (StatusCode holds
\* 100..=999)
BackendStatuses == {200, 404, 499, 500, 600}

AttemptOutcomes ==
    {Outcome("invalid_url", 0), Outcome("transport_error", 0)}
    \cup {Outcome("response", s) : s \in BackendStatuses}

is_server_error_From400(status) == 400 <= status

\* StatusCode::is_server_error
is_server_error(status) == 500 <= status /\ status < 600

\* the anyhow::Error recorded in last_error
Cause(kind, target, status) == [kind |-> kind, target |-> target, status |-> status]

NoTargetsCause == Cause("no_targets", "", 0)

\* proxy_handler's locals before the loop; outcomes is the history of the
\* loop's iterations, one outcome per target tried
NoForward ==
    [targets |-> <<>>, idx |-> 0, last_error |-> None, outcomes |-> <<>>,
     body_bytes |-> <<>>, body_reads |-> 0]

\* proxy_handler up to the failover loop: host extraction, routing, and the
\* buffering of the request body (which may fail)
ProxyHandler(r) ==
    /\ Enter(r, "proxy_handler")
    /\ LET request == req[r][1]
           host == TypedHeaderHost(request)
           route == resolve_targets(hostname(host[1]), request.path, config)
       IN  IF host = None
           THEN Reply(r, "proxy_handler", ExtractorRejection) /\ UNCHANGED fwd
           ELSE IF route.kind # "Ok"
           THEN Reply(r, "proxy_handler", into_response(VaneError(route.kind, None)))
                /\ UNCHANGED fwd
           ELSE \E body_read \in BOOLEAN :
                  IF ~body_read
                  THEN /\ Reply(r, "proxy_handler",
                                into_response(VaneError("BadGateway",
                                                        Some(Cause("body", "", 0)))))
                       /\ UNCHANGED fwd
                  ELSE IF route.targets[1] = <<>>
                  THEN /\ Reply(r, "proxy_handler",
                                into_response(VaneError("BadGateway", Some(NoTargetsCause))))
                       /\ UNCHANGED fwd
                  ELSE /\ fwd' = [fwd EXCEPT ![r] =
                                    [targets |-> route.targets[1], idx |-> 1,
                                     last_error |-> None, outcomes |-> <<>>,
                                     body_bytes |-> request.body,
                                     body_reads |-> fwd[r].body_reads + 1]]
                       /\ pc' = [pc EXCEPT ![r] = "failover"]
                       /\ UNCHANGED resp
    /\ UNCHANGED <<staticVars, limiterVars, pureVars, req, ext_addr, consulted, attempts>>

\* the error recorded when an attempt fails
FailureCause(outcome, target) ==
    IF outcome.kind = "invalid_url" THEN Cause("invalid_url", target, 0)
    ELSE IF outcome.kind = "transport_error" THEN Cause("transport_error", target, 0)
    ELSE Cause("status", target, outcome.status)

loop_target_Reversed(targets, idx) == targets[Len(targets) + 1 - idx]

\* `for target_url in target_urls`: the target of iteration idx
loop_target(targets, idx) == targets[idx]

record_error_KeepFirst(last_error, cause) ==
    IF last_error = None THEN Some(cause) ELSE last_error

\* last_error = Some(..)
record_error(last_error, cause) == Some(cause)

next_target_Same(idx) == idx

\* the `for` loop advances to the next entry of target_urls
next_target(idx) == idx + 1

\* one iteration of the failover loop, and the return after the last one
ProxyAttempt(r) ==
    /\ pc[r] = "failover"
    /\ LET request == req[r][1]
           f == fwd[r]
           target == loop_target(f.targets, f.idx)
       IN  \E outcome \in AttemptOutcomes :
             /\ attempts' = [attempts EXCEPT ![r] =
                               IF outcome.kind = "invalid_url" THEN @
                               ELSE Append(@, Attempt(target, request, ext_addr[r],
                                                      attempt_body(f.body_bytes, f.idx)))]
             /\ IF outcome.kind = "response" /\ ~is_server_error(outcome.status)
                THEN /\ Reply(r, "proxy_handler", Response(outcome.status, target, None))
                     /\ fwd' = [fwd EXCEPT ![r].outcomes = Append(@, outcome)]
                ELSE /\ fwd' = [fwd EXCEPT ![r].idx = next_target(@),
                                           ![r].last_error =
                                               record_error(@, FailureCause(outcome, target)),
                                           ![r].outcomes = Append(@, outcome)]
                     /\ IF f.idx = Len(f.targets)
                        THEN Reply(r, "proxy_handler",
                                   into_response(VaneError("BadGateway",
                                                           fwd'[r].last_error)))
                        ELSE UNCHANGED <<pc, resp>>
    /\ UNCHANGED <<staticVars, limiterVars, pureVars, req, ext_addr, consulted, visited>>

-----------------------------------------------------------------------------
(* Time: the buckets are replenished.                                      *)

ReplenishShield(ip) ==
    /\ shield[ip] < ShieldBurst
    /\ shield' = [shield EXCEPT ![ip] = @ + 1]
    /\ UNCHANGED <<staticVars, configurable_limiter, route_limiters, override_limiters,
                   pureVars, req, pc, ext_addr, consulted, visited, fwd, attempts, resp>>

ReplenishDefault(ip) ==
    /\ AfterReplenish(configurable_limiter, ip) # configurable_limiter
    /\ configurable_limiter' = AfterReplenish(configurable_limiter, ip)
    /\ UNCHANGED <<staticVars, shield, route_limiters, override_limiters,
                   pureVars, req, pc, ext_addr, consulted, visited, fwd, attempts, resp>>

ReplenishRoute(key, ip) ==
    /\ AfterReplenish(route_limiters[key], ip) # route_limiters[key]
    /\ route_limiters' = [route_limiters EXCEPT ![key] = AfterReplenish(@, ip)]
    /\ UNCHANGED <<staticVars, shield, configurable_limiter, override_limiters,
                   pureVars, req, pc, ext_addr, consulted, visited, fwd, attempts, resp>>

ReplenishOverride(key, ip) ==
    /\ AfterReplenish(override_limiters[key], ip) # override_limiters[key]
    /\ override_limiters' = [override_limiters EXCEPT ![key] = AfterReplenish(@, ip)]
    /\ UNCHANGED <<staticVars, shield, configurable_limiter, route_limiters,
                   pureVars, req, pc, ext_addr, consulted, visited, fwd, attempts, resp>>

-----------------------------------------------------------------------------
(* The configurations and the requests of the pipeline model.              *)

Tls == [cert |-> "cert.pem", key |-> "key.pem"]

OneSecond == Period(1, "s")

\* three targets behind `/`, and the pattern /t/* configured twice
FailoverConfig ==
    AppConfig((HostH :>
        [DefaultDomain EXCEPT
            !.https = TRUE, !.http3 = TRUE, !.hsts = TRUE, !.tls = Some(Tls),
            !.routes = << Route(<<"/">>, <<"A", "B", "C">>),
                          Route(<<"/", "t", "/", "*">>, <<"b1">>),
                          Route(<<"/", "t", "/", "*">>, <<"b2">>) >>]))

\* an override rule for /o, a route rule for /*, and a default rule, each of
\* one request per second, on a domain served over plain HTTP only
LimitsConfig ==
    AppConfig((HostH :>
        [DefaultDomain EXCEPT
            !.routes = << Route(<<"/">>, <<"A">>) >>,
            !.rate_limit =
                [default   |-> Some(Rule(OneSecond, 1)),
                 routes    |-> << RouteRule(<<"/", "*">>, Rule(OneSecond, 1)) >>,
                 overrides |-> << RouteRule(<<"/", "o">>, Rule(OneSecond, 1)) >>]]))

OriginO == <<"o">>

\* a method allow-list and a CORS block, plain HTTP upgraded
PolicyConfig ==
    AppConfig((HostH :>
        [DefaultDomain EXCEPT
            !.https = TRUE, !.tls = Some(Tls), !.http_options = "upgrade",
            !.routes = << Route(<<"/">>, <<"A">>) >>,
            !.methods = Some([allow |-> <<"GET", " post">>]),
            !.cors = Some([origins |-> (OriginO :> <<"GET">>)])]))

PipelineConfigs == {FailoverConfig, LimitsConfig, PolicyConfig}

RequestPaths == { <<"/">>, <<"/", "x">>, <<"/", "o">>, <<"/", "t", "/", "x">> }

HostHeader(host) == HeaderInsert(NoHeaders, "host", host)

\* requests for the configured host that differ in listener, client and path
PathRequests ==
    { Request(l, ip, "GET", None, p, HostHeader(HostH)) :
        l \in Listeners, ip \in ClientIPs, p \in RequestPaths }

\* requests that carry IP headers of their own
SpoofedHeaders ==
    { HeaderInsert(HostHeader(HostH), "x-forwarded-for", SpoofIP),
      [HostHeader(HostH) EXCEPT !["x-forwarded-for"] = <<SpoofIP, SpoofIP>>,
                                !["x-real-ip"] = <<SpoofIP>>,
                                !["x-forwarded"] = <<SpoofIP>>,
                                !["forwarded-for"] = <<SpoofIP>>,
                                !["forwarded"] = <<<<"for=">> \o SpoofIP>>] }

SpoofedRequests ==
    { Request(l, IP1, "GET", None, <<"/", "x">>, h) : l \in Listeners, h \in SpoofedHeaders }

\* requests that name the host in other ways
HostRequests ==
    { Request("http", IP1, "GET", None, <<"/", "x">>, HostHeader(HostZ)),
      Request("http", IP1, "GET", None, <<"/", "x">>, HostHeader(HostHPort)),
      Request("http", IP1, "GET", None, <<"/", "x">>, NoHeaders),
      Request("https", IP1, "GET", Some(HostH), <<"/", "x">>, NoHeaders),
      Request("h3", IP1, "GET", Some(HostH), <<"/", "x">>, NoHeaders),
      Request("http", IP1, "GET", None, <<"/", "x">>,
              HeaderInsert(HostHeader(HostH), "x-forwarded-host", HostZ)),
      Request("http", IP1, "GET", None, <<"/", "x">>,
              HeaderInsert(HostHeader(HostH), "forwarded", <<"host=">> \o HostZ)) }

\* requests that differ in method and in the CORS headers
MethodRequests ==
    { Request("https", IP1, m, None, <<"/", "x">>, h) :
        m \in {"DELETE", "OPTIONS", "POST"},
        h \in { HostHeader(HostH),
                HeaderInsert(HostHeader(HostH), "origin", OriginO),
                HeaderInsert(HeaderInsert(HostHeader(HostH), "origin", OriginO),
                             "access-control-request-method", <<"GET">>) } }

Requests == PathRequests \cup SpoofedRequests \cup HostRequests \cup MethodRequests

\* the HTTP/3 listener's own copy of the authority into a missing Host
\* header, before the request enters the pipeline
h3_rebuild(request) ==
    IF request.listener = "h3" /\ request.authority # None
       /\ HeaderGet(request.headers, "host") = None
    THEN [request EXCEPT !.headers = HeaderInsert(@, "host", request.authority[1])]
    ELSE request

\* a listener accepts one of the requests that clients send and hands it to
\* the outermost layer
Accept(r, requests) ==
    /\ pc[r] = "idle"
    /\ \E request \in requests :
          /\ request.listener \in StartedListeners(config)
          /\ req' = [req EXCEPT ![r] = Some(h3_rebuild(request))]
          /\ pc' = [pc EXCEPT ![r] = Pipeline(request.listener)[1]]
    /\ UNCHANGED <<staticVars, limiterVars, pureVars, ext_addr, consulted, visited, fwd,
                   attempts, resp>>

NewRequest(r) == Accept(r, Requests)

\* the response has been sent and the task that served the request ends
Finish(r) ==
    /\ pc[r] = "done"
    /\ pc' = [pc EXCEPT ![r] = "idle"]
    /\ req' = [req EXCEPT ![r] = None]
    /\ ext_addr' = [ext_addr EXCEPT ![r] = None]
    /\ consulted' = [consulted EXCEPT ![r] = <<>>]
    /\ visited' = [visited EXCEPT ![r] = <<>>]
    /\ fwd' = [fwd EXCEPT ![r] = NoForward]
    /\ attempts' = [attempts EXCEPT ![r] = <<>>]
    /\ resp' = [resp EXCEPT ![r] = <<>>]
    /\ UNCHANGED <<staticVars, limiterVars, pureVars>>

\* the orders in which a HashMap with the given keys can be iterated
IterationOrders(keys) ==
    { f \in [1..Cardinality(keys) -> keys] :
        \A a, b \in 1..Cardinality(keys) : a # b => f[a] # f[b] }

taskIdle ==
    /\ req = [r \in Tasks |-> None]
    /\ pc = [r \in Tasks |-> "idle"]
    /\ ext_addr = [r \in Tasks |-> None]
    /\ consulted = [r \in Tasks |-> <<>>]
    /\ visited = [r \in Tasks |-> <<>>]
    /\ fwd = [r \in Tasks |-> NoForward]
    /\ attempts = [r \in Tasks |-> <<>>]
    /\ resp = [r \in Tasks |-> <<>>]

\* startup with one of the given configurations: the limiters are built
\* from it and every bucket is full
Startup(configs) ==
    /\ config \in configs
    /\ \E domains \in IterationOrders(DOMAIN config.domains) :
         LET built == build_route_limiters(config, domains)
         IN  /\ build_global_limiter(config, domains) # None
             /\ configurable_limiter = build_global_limiter(config, domains)[1]
             /\ route_limiters = built.routes
             /\ override_limiters = built.overrides
             /\ \E routes \in IterationOrders(DOMAIN built.routes),
                   overrides \in IterationOrders(DOMAIN built.overrides) :
                   iter_order = [domains |-> domains, routes |-> routes,
                                 overrides |-> overrides]
    /\ shield = [ip \in ClientIPs |-> ShieldBurst]

\* the state after startup: no request is being served
Init ==
    /\ mPattern = <<>> /\ mPath = <<>> /\ mScore = None
    /\ rPath = <<>> /\ rHost = <<>> /\ rResult = None
    /\ quota = None
    /\ pages = None /\ acme = None /\ renewal = None
    /\ boot = None
    /\ tls = None
    /\ Startup(PipelineConfigs)
    /\ taskIdle

Next ==
    \/ \E r \in Tasks :
         \/ NewRequest(r)
         \/ HttpRequestHandler(r)
         \/ HstsHandler(r)
         \/ AltSvcHandler(r)
         \/ RateLimitHandler(r)
         \/ RateLimitOverride(r)
         \/ RateLimitRoute(r)
         \/ RateLimitDefault(r)
         \/ CorsHandler(r)
         \/ MethodFilterHandler(r)
         \/ InjectHostHeader(r)
         \/ ProxyHandler(r)
         \/ ProxyAttempt(r)
         \/ Finish(r)
    \/ \E ip \in ClientIPs :
         \/ ReplenishShield(ip)
         \/ ReplenishDefault(ip)
         \/ \E key \in DOMAIN route_limiters : ReplenishRoute(key, ip)
         \/ \E key \in DOMAIN override_limiters : ReplenishOverride(key, ip)

Spec == Init /\ [][Next]_vars

-----------------------------------------------------------------------------
(* The path matcher applied to every pattern and path within the bounds.   *)

\* the pipeline before startup: no configuration, no limiter, no task
pipelineIdle ==
    /\ config = AppConfig(<<>>)
    /\ iter_order = [domains |-> <<>>, routes |-> <<>>, overrides |-> <<>>]
    /\ shield = [ip \in ClientIPs |-> ShieldBurst]
    /\ configurable_limiter = UnlimitedLimiter
    /\ route_limiters = <<>>
    /\ override_limiters = <<>>
    /\ taskIdle

routerIdle == rPath = <<>> /\ rHost = <<>> /\ rResult = None

matcherIdle == mPattern = <<>> /\ mPath = <<>> /\ mScore = None

InitMatch ==
    /\ mPattern \in StringsUpTo(MaxPatLen)
    /\ mPath \in StringsUpTo(MaxPathLen)
    /\ mScore = None
    /\ routerIdle
    /\ quota = None
    /\ pages = None /\ acme = None /\ renewal = None
    /\ boot = None
    /\ tls = None
    /\ pipelineIdle

CallMatch ==
    /\ mScore = None
    /\ mScore' = Some(get_match_score(mPattern, mPath))
    /\ UNCHANGED <<mPattern, mPath, rPath, rHost, rResult, quota, boot, tls, pages, acme, renewal>>
    /\ UNCHANGED <<staticVars, limiterVars, taskVars>>

NextMatch == CallMatch

SpecMatch == InitMatch /\ [][NextMatch]_vars

\* the same pattern and path given to the router's and to the rate limiter's
\* get_match_score
CallBothScores ==
    /\ mScore = None
    /\ mScore' = Some([router  |-> get_match_score(mPattern, mPath),
                       limiter |-> rl_get_match_score(mPattern, mPath)])
    /\ UNCHANGED <<mPattern, mPath, rPath, rHost, rResult, quota, boot, tls, pages, acme, renewal>>
    /\ UNCHANGED <<staticVars, limiterVars, taskVars>>

NextScores == CallBothScores

SpecScores == InitMatch /\ [][NextScores]_vars

-----------------------------------------------------------------------------
(* The router applied to every route list within the bounds.               *)

RouterPatterns ==
    { <<"/">>, <<"/", "a">>, <<"/", "a", "/">>, <<"/", "a", "/", "*">>,
      <<"/", "*", "/", "b">>, <<"/", "a", "/", "b">> }

RouterTargetLists == { <<"b1">>, <<"b2", "b1">> }

RouterPaths == { <<"/", "a", "/", "b">>, <<"/", "a">>, <<"/", "c">> }

RoutePool == { Route(p, t) : p \in RouterPatterns, t \in RouterTargetLists }

RECURSIVE RouteLists(_)
RouteLists(n) ==
    IF n = 0 THEN {<<>>}
    ELSE LET shorter == RouteLists(n - 1)
         IN  shorter \cup {Append(s, r) : s \in {t \in shorter : Len(t) = n - 1}, r \in RoutePool}

InitRoute ==
    /\ matcherIdle
    /\ quota = None
    /\ pages = None /\ acme = None /\ renewal = None
    /\ boot = None
    /\ tls = None
    /\ iter_order = [domains |-> <<>>, routes |-> <<>>, overrides |-> <<>>]
    /\ shield = [ip \in ClientIPs |-> ShieldBurst]
    /\ configurable_limiter = UnlimitedLimiter
    /\ route_limiters = <<>>
    /\ override_limiters = <<>>
    /\ taskIdle
    /\ \E routes \in RouteLists(MaxRoutes) :
          config = AppConfig((HostH :> [DefaultDomain EXCEPT !.routes = routes]))
    /\ rHost \in {HostH, HostZ}
    /\ rPath \in RouterPaths
    /\ rResult = None

CallRoute ==
    /\ rResult = None
    /\ rHost # <<>>
    /\ rResult' = Some(resolve_targets(rHost, rPath, config))
    /\ UNCHANGED <<mPattern, mPath, mScore, rPath, rHost, quota, boot, tls, pages, acme, renewal>>
    /\ UNCHANGED <<staticVars, limiterVars, taskVars>>

NextRoute == CallRoute

SpecRoute == InitRoute /\ [][NextRoute]_vars

-----------------------------------------------------------------------------
(* The pipeline under configurations of the rate limiter: rules of one     *)
(* domain next to each other, default rules of two domains, rules that     *)
(* are disabled.                                                           *)

PlainDomain == [DefaultDomain EXCEPT !.routes = << Route(<<"/">>, <<"A">>) >>]

\* an override rule for /a and a route rule for /b, no default rule
IsolationConfig ==
    AppConfig((HostH :>
        [PlainDomain EXCEPT
            !.rate_limit =
                [default   |-> None,
                 routes    |-> << RouteRule(<<"/", "b">>, Rule(OneSecond, 1)) >>,
                 overrides |-> << RouteRule(<<"/", "a">>, Rule(OneSecond, 1)) >>]]))

\* two domains, one with a default rule and one with none
SharedDefaultConfig ==
    AppConfig((HostH :> [PlainDomain EXCEPT !.rate_limit.default = Some(Rule(OneSecond, 1))])
           @@ (HostZ :> PlainDomain))

\* rules with requests = 0 or with a zero period
DisabledRules == { Rule(OneSecond, 0), Rule(Period(0, "s"), 1), Rule(Period(0, "m"), 1) }

\* a domain all of whose rules are the given disabled rule, next to a domain
\* with the given default
DisabledConfig(rule, other_default) ==
    AppConfig((HostH :>
        [PlainDomain EXCEPT
            !.rate_limit =
                [default   |-> Some(rule),
                 routes    |-> << RouteRule(<<"/", "b">>, rule) >>,
                 overrides |-> << RouteRule(<<"/", "a">>, rule) >>]])
           @@ (HostZ :> [PlainDomain EXCEPT !.rate_limit.default = other_default]))

DisabledConfigs ==
    { DisabledConfig(rule, other) :
        rule \in DisabledRules, other \in {None, Some(Rule(OneSecond, 1))} }

LimiterConfigs == {IsolationConfig, SharedDefaultConfig} \cup DisabledConfigs

\* plain-HTTP requests for /a and /b of either host from either client
LimiterRequests ==
    { Request("http", ip, "GET", None, p, HostHeader(h)) :
        ip \in ClientIPs, p \in { <<"/", "a">>, <<"/", "b">> }, h \in {HostH, HostZ} }

NewLimiterRequest(r) == Accept(r, LimiterRequests)

InitLimits ==
    /\ matcherIdle
    /\ routerIdle
    /\ quota = None
    /\ pages = None /\ acme = None /\ renewal = None
    /\ boot = None
    /\ tls = None
    /\ Startup(LimiterConfigs)
    /\ taskIdle

NextLimits ==
    \/ \E r \in Tasks :
         \/ NewLimiterRequest(r)
         \/ HttpRequestHandler(r)
         \/ RateLimitHandler(r)
         \/ RateLimitOverride(r)
         \/ RateLimitRoute(r)
         \/ RateLimitDefault(r)
         \/ CorsHandler(r)
         \/ MethodFilterHandler(r)
         \/ ProxyHandler(r)
         \/ ProxyAttempt(r)
         \/ Finish(r)
    \/ \E ip \in ClientIPs :
         \/ ReplenishShield(ip)
         \/ ReplenishDefault(ip)
         \/ \E key \in DOMAIN route_limiters : ReplenishRoute(key, ip)
         \/ \E key \in DOMAIN override_limiters : ReplenishOverride(key, ip)

SpecLimits == InitLimits /\ [][NextLimits]_vars

-----------------------------------------------------------------------------
(* Requests served concurrently within one window of the default rule:     *)
(* no cell of the default limiter comes back.                              *)

\* the tasks that serve the requests of the window, one request each
ConcurrentTasks == {1, 2, 3}

\* rate_limit.default = {period: "1s", requests: 2}
WindowConfig ==
    AppConfig((HostH :> [PlainDomain EXCEPT !.rate_limit.default = Some(Rule(OneSecond, 2))]))

WindowRequests ==
    { Request("http", ip, "GET", None, <<"/", "a">>, HostHeader(HostH)) : ip \in ClientIPs }

NewWindowRequest(r) == Accept(r, WindowRequests)

InitWindow ==
    /\ matcherIdle
    /\ routerIdle
    /\ quota = None
    /\ pages = None /\ acme = None /\ renewal = None
    /\ boot = None
    /\ tls = None
    /\ Startup({WindowConfig})
    /\ req = [r \in ConcurrentTasks |-> None]
    /\ pc = [r \in ConcurrentTasks |-> "idle"]
    /\ ext_addr = [r \in ConcurrentTasks |-> None]
    /\ consulted = [r \in ConcurrentTasks |-> <<>>]
    /\ visited = [r \in ConcurrentTasks |-> <<>>]
    /\ fwd = [r \in ConcurrentTasks |-> NoForward]
    /\ attempts = [r \in ConcurrentTasks |-> <<>>]
    /\ resp = [r \in ConcurrentTasks |-> <<>>]

NextWindow ==
    \/ \E r \in ConcurrentTasks :
         \/ NewWindowRequest(r)
         \/ HttpRequestHandler(r)
         \/ RateLimitHandler(r)
         \/ RateLimitOverride(r)
         \/ RateLimitRoute(r)
         \/ RateLimitDefault(r)
         \/ CorsHandler(r)
         \/ MethodFilterHandler(r)
         \/ ProxyHandler(r)
         \/ ProxyAttempt(r)
    \/ \E ip \in ClientIPs : ReplenishShield(ip)

SpecWindow == InitWindow /\ [][NextWindow]_vars

-----------------------------------------------------------------------------
(* The three listeners of a domain with a method allow-list and a CORS     *)
(* block, under each HTTP-mode policy.                                     *)

\* an origin that the CORS block does not list
OriginP == <<"p">>

PolicyMethods ==
    { None, Some([allow |-> <<"*">>]), Some([allow |-> <<"GET", " post">>]) }

PolicyDomain(http_options, methods) ==
    [DefaultDomain EXCEPT
        !.https = TRUE, !.http3 = TRUE, !.tls = Some(Tls),
        !.http_options = http_options,
        !.routes = << Route(<<"/">>, <<"A">>) >>,
        !.methods = methods,
        !.cors = Some([origins |-> (OriginO :> <<"GET">>)])]

PolicyConfigs ==
    { AppConfig((HostH :> PolicyDomain(http_options, methods))) :
        http_options \in {"allow", "upgrade", "reject"}, methods \in PolicyMethods }

\* the Host, Origin and Access-Control-Request-Method headers of a request
PolicyHeaders ==
    { HostHeader(HostH),
      HostHeader(HostZ),
      HeaderInsert(HostHeader(HostH), "origin", OriginO) }
    \cup { HeaderInsert(HeaderInsert(HostHeader(HostH), "origin", origin),
                        "access-control-request-method", <<requested>>) :
             origin \in {OriginO, OriginP}, requested \in {"GET", "DELETE"} }

PolicyRequests ==
    { Request(l, IP1, m, None, <<"/", "x">>, h) :
        l \in Listeners, m \in {"GET", "DELETE", "OPTIONS", "POST"}, h \in PolicyHeaders }
    \cup { Request(l, IP2, "GET", None, <<"/", "x">>, HostHeader(HostH)) : l \in Listeners }

NewPolicyRequest(r) == Accept(r, PolicyRequests)

InitPolicy ==
    /\ matcherIdle
    /\ routerIdle
    /\ quota = None
    /\ pages = None /\ acme = None /\ renewal = None
    /\ boot = None
    /\ tls = None
    /\ Startup(PolicyConfigs)
    /\ taskIdle

NextPolicy ==
    \/ \E r \in Tasks :
         \/ NewPolicyRequest(r)
         \/ HttpRequestHandler(r)
         \/ HstsHandler(r)
         \/ AltSvcHandler(r)
         \/ RateLimitHandler(r)
         \/ RateLimitOverride(r)
         \/ RateLimitRoute(r)
         \/ RateLimitDefault(r)
         \/ CorsHandler(r)
         \/ MethodFilterHandler(r)
         \/ InjectHostHeader(r)
         \/ ProxyHandler(r)
         \/ ProxyAttempt(r)
         \/ Finish(r)
    \/ \E ip \in ClientIPs : ReplenishShield(ip)

SpecPolicy == InitPolicy /\ [][NextPolicy]_vars

-----------------------------------------------------------------------------
(* The response headers of the three listeners: domains that differ in     *)
(* hsts, http3, http_options and the CORS block, and requests with and     *)
(* without an X-Forwarded-Host header.                                     *)

CorsBlock(origins) == Some([origins |-> origins])

HeaderBase ==
    [DefaultDomain EXCEPT
        !.https = TRUE, !.hsts = TRUE, !.http3 = TRUE, !.tls = Some(Tls),
        !.routes = << Route(<<"/">>, <<"A">>) >>,
        !.methods = Some([allow |-> <<"GET">>]),
        !.cors = CorsBlock((OriginO :> <<"GET">>))]

HeaderDomains ==
    { [HeaderBase EXCEPT !.hsts = hsts, !.http3 = http3] : hsts, http3 \in BOOLEAN }
    \cup { [HeaderBase EXCEPT !.http_options = http_options] :
              http_options \in {"upgrade", "reject"} }
    \cup { [HeaderBase EXCEPT !.cors = cors] :
              cors \in { None,
                         CorsBlock((<<"*">> :> <<>>)),
                         CorsBlock((OriginO :> <<"*">>)),
                         CorsBlock((OriginO :> <<"get", " post">>) @@ (<<"*">> :> <<"DELETE">>)) } }

\* a domain without https next to one with it: the HTTPS listeners run and
\* serve both
PlainNextToHttps ==
    AppConfig((HostH :> [HeaderBase EXCEPT !.https = FALSE, !.tls = None])
              @@ (HostZ :> HeaderBase))

HeaderConfigs ==
    { AppConfig((HostH :> domain_config)) : domain_config \in HeaderDomains }
    \cup { PlainNextToHttps }

\* a host name that no configuration lists
HostU == <<"u">>

\* the Host header alone, or with an X-Forwarded-Host header that names
\* another host
HostVariants ==
    { HostHeader(HostH), HeaderInsert(HostHeader(HostH), "x-forwarded-host", HostU) }

\* Host, X-Forwarded-Host, Origin, Access-Control-Request-Method
HeaderVariants ==
    HostVariants
    \cup { HeaderInsert(h, "origin", origin) : h \in HostVariants, origin \in {OriginO, OriginP} }
    \cup { HeaderInsert(HeaderInsert(h, "origin", origin),
                        "access-control-request-method", <<requested>>) :
              h \in HostVariants, origin \in {OriginO, OriginP},
              requested \in {"GET", "DELETE"} }

HeaderRequests ==
    { Request(l, IP1, m, None, <<"/", "x">>, h) :
        l \in Listeners, m \in {"GET", "OPTIONS"}, h \in HeaderVariants }

NewHeaderRequest(r) == Accept(r, HeaderRequests)

InitHeaders ==
    /\ matcherIdle
    /\ routerIdle
    /\ quota = None
    /\ pages = None /\ acme = None /\ renewal = None
    /\ boot = None
    /\ tls = None
    /\ Startup(HeaderConfigs)
    /\ taskIdle

NextHeaders ==
    \/ \E r \in Tasks :
         \/ NewHeaderRequest(r)
         \/ HttpRequestHandler(r)
         \/ HstsHandler(r)
         \/ AltSvcHandler(r)
         \/ RateLimitHandler(r)
         \/ RateLimitOverride(r)
         \/ RateLimitRoute(r)
         \/ RateLimitDefault(r)
         \/ CorsHandler(r)
         \/ MethodFilterHandler(r)
         \/ InjectHostHeader(r)
         \/ ProxyHandler(r)
         \/ ProxyAttempt(r)
         \/ Finish(r)
    \/ ReplenishShield(IP1)

SpecHeaders == InitHeaders /\ [][NextHeaders]_vars

-----------------------------------------------------------------------------
(* src/tls.rs: the SNI certificate resolver, called once per TLS           *)
(* handshake, and the certificate and key files it reads.                  *)

\* the handshakes that can be in progress at once
Handshakes == {1, 2}

\* what a file holds: no file, a PEM section that does not decode, no PEM
\* section of the wanted kind, or a valid section (one of two versions)
FileContents == {"missing", "malformed", "empty", "v1", "v2"}

\* the server names a ClientHello can carry, and none
ServerNames == {None, Some(HostH), Some(HostZ), Some(HostU)}

\* load_certs: every certificate section of the file; a file without one
\* gives an empty list
load_certs(content) ==
    IF content \in {"missing", "malformed"} THEN None
    ELSE IF content = "empty" THEN Some(<<>>)
    ELSE Some(<<content>>)

\* load_key: the first private key section of the file; a file without one
\* is an error
load_key(content) ==
    IF content \in {"missing", "malformed", "empty"} THEN None ELSE Some(content)

NoHello == [server_name |-> None, step |-> "idle", certs |-> None, key |-> None,
            result |-> None]

\* domains that differ in https and in the presence of a tls block
TlsConfigs ==
    { AppConfig((HostH :> HeaderBase) @@ (HostZ :> domain_config)) :
        domain_config \in { HeaderBase,
                            [HeaderBase EXCEPT !.https = FALSE],
                            [HeaderBase EXCEPT !.https = FALSE, !.tls = None] } }

InitTls ==
    /\ matcherIdle
    /\ routerIdle
    /\ quota = None
    /\ pages = None /\ acme = None /\ renewal = None
    /\ boot = None
    /\ Startup(TlsConfigs)
    /\ taskIdle
    /\ tls = [disk  |-> [cert |-> "v1", key |-> "v1"],
              hello |-> [h \in Handshakes |-> NoHello]]

tlsOthers == <<mPattern, mPath, mScore, rPath, rHost, rResult, quota, boot,
               pages, acme, renewal,
               staticVars, limiterVars, taskVars>>

\* a ClientHello arrives and rustls calls resolve()
ClientHello(h) ==
    /\ tls.hello[h].step = "idle"
    /\ \E server_name \in ServerNames :
          tls' = [tls EXCEPT !.hello[h] =
                     [NoHello EXCEPT !.server_name = server_name, !.step = "resolve"]]
    /\ UNCHANGED tlsOthers

\* the handshake ends with the given answer of resolve()
Resolved(hello, result) == [hello EXCEPT !.step = "done", !.result = result]

Resolve_IgnoresHttps(h) ==
    /\ tls.hello[h].step = "resolve"
    /\ LET hello == tls.hello[h]
           domain_config == DomainOf(config, hello.server_name)
       IN  IF hello.server_name = None \/ domain_config = None
              \/ domain_config[1].tls = None
           THEN tls' = [tls EXCEPT !.hello[h] = Resolved(hello, None)]
           ELSE LET certs == load_certs(tls.disk.cert)
                IN  IF certs = None
                    THEN tls' = [tls EXCEPT !.hello[h] =
                                    Resolved([hello EXCEPT !.certs = Some(tls.disk.cert)], None)]
                    ELSE tls' = [tls EXCEPT !.hello[h] =
                                    [hello EXCEPT !.certs = Some(tls.disk.cert),
                                                  !.step = "load_key"]]
    /\ UNCHANGED tlsOthers

\* PerDomainCertResolver::resolve up to build_certified_key's load_certs:
\* the server name, the domain, https, the tls block, the certificate file
Resolve(h) ==
    /\ tls.hello[h].step = "resolve"
    /\ LET hello == tls.hello[h]
           domain_config == DomainOf(config, hello.server_name)
       IN  IF hello.server_name = None \/ domain_config = None
              \/ ~domain_config[1].https \/ domain_config[1].tls = None
           THEN tls' = [tls EXCEPT !.hello[h] = Resolved(hello, None)]
           ELSE LET certs == load_certs(tls.disk.cert)
                IN  IF certs = None
                    THEN tls' = [tls EXCEPT !.hello[h] =
                                    Resolved([hello EXCEPT !.certs = Some(tls.disk.cert)], None)]
                    ELSE tls' = [tls EXCEPT !.hello[h] =
                                    [hello EXCEPT !.certs = Some(tls.disk.cert),
                                                  !.step = "load_key"]]
    /\ UNCHANGED tlsOthers

\* the file that load_key reads when another handshake has just read it
LoadKey_SharedRead(h) ==
    /\ tls.hello[h].step = "load_key"
    /\ LET hello == tls.hello[h]
           earlier == { g \in Handshakes \ {h} : tls.hello[g].key # None }
           content == IF earlier = {} THEN tls.disk.key
                      ELSE tls.hello[CHOOSE g \in earlier : TRUE].key[1]
           key == load_key(content)
       IN  tls' = [tls EXCEPT !.hello[h] =
                      Resolved([hello EXCEPT !.key = Some(content)],
                               IF key = None THEN None
                               ELSE Some([cert |-> load_certs(hello.certs[1])[1],
                                          key  |-> key[1]]))]
    /\ UNCHANGED tlsOthers

\* build_certified_key from load_key on: the key file, the signing key and
\* CertifiedKey::new, which does not compare the key with the certificates
LoadKey(h) ==
    /\ tls.hello[h].step = "load_key"
    /\ LET hello == tls.hello[h]
           key == load_key(tls.disk.key)
       IN  tls' = [tls EXCEPT !.hello[h] =
                      Resolved([hello EXCEPT !.key = Some(tls.disk.key)],
                               IF key = None THEN None
                               ELSE Some([cert |-> load_certs(hello.certs[1])[1],
                                          key  |-> key[1]]))]
    /\ UNCHANGED tlsOthers

\* the handshake is over (completed with the certificate, or failed)
HandshakeEnds(h) ==
    /\ tls.hello[h].step = "done"
    /\ tls' = [tls EXCEPT !.hello[h] = NoHello]
    /\ UNCHANGED tlsOthers

\* a certificate or key file is written, replaced or removed
WriteFile(file, content) ==
    /\ tls.disk[file] # content
    /\ tls' = [tls EXCEPT !.disk[file] = content]
    /\ UNCHANGED tlsOthers

NextTls ==
    \/ \E h \in Handshakes :
         \/ ClientHello(h)
         \/ Resolve(h)
         \/ LoadKey(h)
         \/ HandshakeEnds(h)
    \/ \E file \in {"cert", "key"}, content \in FileContents : WriteFile(file, content)

SpecTls == InitTls /\ [][NextTls]_vars

-----------------------------------------------------------------------------
(* src/config.rs, src/server/mod.rs: startup, from the configuration files *)
(* to the listeners, and the requests served once it is over.              *)

\* the domain files the configuration directory can hold for a host: every
\* combination of https, tls, http3 and of an empty or a non-empty target
\* list, and a default rate-limit rule whose period has no valid unit
DomainFiles ==
    { [DefaultDomain EXCEPT
          !.https = https, !.http3 = http3, !.tls = table,
          !.routes = << Route(<<"/">>, targets) >>] :
        https, http3 \in BOOLEAN, table \in {None, Some(Tls)},
        targets \in {<<>>, <<"A">>} }
    \cup { [DefaultDomain EXCEPT
              !.routes = << Route(<<"/">>, <<"A">>) >>,
              !.rate_limit = [default |-> Some(Rule(Period(1, "x"), 1)),
                              routes |-> <<>>, overrides |-> <<>>]] }

\* a second domain, served over TLS without HTTP/3
SecondDomain ==
    [DefaultDomain EXCEPT
        !.https = TRUE, !.tls = Some(Tls),
        !.routes = << Route(<<"/">>, <<"A">>) >>]

\* what the main config file lists (nothing when it is absent or empty), and
\* for each listed host the parsed domain file, or None when it cannot be
\* read or parsed
ConfigDirs ==
    { hs @@ zs :
        hs \in { <<>> } \cup { (HostH :> file) : file \in {None} \cup { Some(d) : d \in DomainFiles } },
        zs \in { <<>>, (HostZ :> Some(SecondDomain)) } }

\* load_config without its check of https against tls
load_config_Unchecked(files) ==
    IF \E name \in DOMAIN files : files[name] = None
    THEN None
    ELSE Some(AppConfig([name \in DOMAIN files |-> files[name][1]]))

\* load_config: Err (None) when a domain file cannot be read or parsed, or
\* has https = true and no [tls] table; otherwise the map of the domains
load_config(files) ==
    IF \E name \in DOMAIN files :
          \/ files[name] = None
          \/ files[name][1].https /\ files[name][1].tls = None
    THEN None
    ELSE Some(AppConfig([name \in DOMAIN files |-> files[name][1]]))

\* requests for either host at each of the listeners
StartupRequests ==
    { Request(l, IP1, "GET", None, <<"/", "x">>, HostHeader(host)) :
        l \in Listeners, host \in {HostH, HostZ} }

InitStartup ==
    /\ matcherIdle
    /\ routerIdle
    /\ quota = None
    /\ pages = None /\ acme = None /\ renewal = None
    /\ tls = None
    /\ boot \in { [files |-> files, step |-> "load_config", listeners |-> {}] :
                    files \in ConfigDirs }
    /\ pipelineIdle

bootOthers == <<mPattern, mPath, mScore, rPath, rHost, rResult, quota, tls,
                pages, acme, renewal>>

\* run, up to build_shared_state: a configuration that does not load ends
\* the process, one without domains starts the first-run setup
LoadConfig ==
    /\ boot.step = "load_config"
    /\ LET loaded == load_config(boot.files)
       IN  IF loaded = None
           THEN /\ boot' = [boot EXCEPT !.step = "exited"]
                /\ UNCHANGED config
           ELSE /\ config' = loaded[1]
                /\ boot' = [boot EXCEPT !.step =
                              IF DOMAIN loaded[1].domains = {}
                              THEN "first_run" ELSE "build_shared_state"]
    /\ UNCHANGED <<iter_order, limiterVars, bootOthers, taskVars>>

\* build_shared_state: the limiters are built from the configuration; an
\* error ends run
BuildSharedState ==
    /\ boot.step = "build_shared_state"
    /\ \E domains \in IterationOrders(DOMAIN config.domains) :
         LET built == build_route_limiters(config, domains)
         IN  IF build_global_limiter(config, domains) = None
             THEN /\ boot' = [boot EXCEPT !.step = "exited"]
                  /\ UNCHANGED <<iter_order, configurable_limiter, route_limiters,
                                 override_limiters>>
             ELSE /\ configurable_limiter' = build_global_limiter(config, domains)[1]
                  /\ route_limiters' = built.routes
                  /\ override_limiters' = built.overrides
                  /\ \E routes \in IterationOrders(DOMAIN built.routes),
                        overrides \in IterationOrders(DOMAIN built.overrides) :
                        iter_order' = [domains |-> domains, routes |-> routes,
                                       overrides |-> overrides]
                  /\ boot' = [boot EXCEPT !.step = "spawn_http"]
    /\ UNCHANGED <<config, shield, bootOthers, taskVars>>

\* http_server::spawn
SpawnHttp ==
    /\ boot.step = "spawn_http"
    /\ boot' = [boot EXCEPT !.step = "spawn_https", !.listeners = @ \cup {"http"}]
    /\ UNCHANGED <<staticVars, limiterVars, bootOthers, taskVars>>

\* https_server::spawn
SpawnHttps ==
    /\ boot.step = "spawn_https"
    /\ boot' = [boot EXCEPT
                  !.step = "spawn_http3",
                  !.listeners =
                     IF \E h \in DOMAIN config.domains : config.domains[h].https
                     THEN @ \cup {"https"} ELSE @]
    /\ UNCHANGED <<staticVars, limiterVars, bootOthers, taskVars>>

\* http3_server::spawn asking only for http3
SpawnHttp3_AnyHttp3 ==
    /\ boot.step = "spawn_http3"
    /\ boot' = [boot EXCEPT
                  !.step = "serving",
                  !.listeners =
                     IF \E h \in DOMAIN config.domains : config.domains[h].http3
                     THEN @ \cup {"h3"} ELSE @]
    /\ UNCHANGED <<staticVars, limiterVars, bootOthers, taskVars>>

\* http3_server::spawn
SpawnHttp3 ==
    /\ boot.step = "spawn_http3"
    /\ boot' = [boot EXCEPT
                  !.step = "serving",
                  !.listeners =
                     IF \E h \in DOMAIN config.domains :
                           config.domains[h].https /\ config.domains[h].http3
                     THEN @ \cup {"h3"} ELSE @]
    /\ UNCHANGED <<staticVars, limiterVars, bootOthers, taskVars>>

\* a request arrives at one of the listeners that were started
NewStartupRequest(r) ==
    /\ boot.step = "serving"
    /\ Accept(r, StartupRequests)
    /\ req'[r][1].listener \in boot.listeners

NextStartup ==
    \/ LoadConfig
    \/ BuildSharedState
    \/ SpawnHttp
    \/ SpawnHttps
    \/ SpawnHttp3
    \/ \E r \in Tasks :
         \/ NewStartupRequest(r)
         \/ HttpRequestHandler(r)
         \/ HstsHandler(r)
         \/ AltSvcHandler(r)
         \/ RateLimitHandler(r)
         \/ RateLimitOverride(r)
         \/ RateLimitRoute(r)
         \/ RateLimitDefault(r)
         \/ CorsHandler(r)
         \/ MethodFilterHandler(r)
         \/ InjectHostHeader(r)
         \/ ProxyHandler(r)
         \/ ProxyAttempt(r)

SpecStartup == InitStartup /\ [][NextStartup]_vars

-----------------------------------------------------------------------------
(* src/server/mod.rs: run from the moment the listeners serve to the end   *)
(* of the process.                                                         *)

\* one domain served on the three listeners
ShutdownConfig == AppConfig((HostH :> HeaderBase))

InitShutdown ==
    /\ matcherIdle
    /\ routerIdle
    /\ quota = None
    /\ pages = None /\ acme = None /\ renewal = None
    /\ tls = None
    /\ Startup({ShutdownConfig})
    /\ boot = [files |-> (HostH :> Some(HeaderBase)), step |-> "serving",
               listeners |-> StartedListeners(config)]
    /\ taskIdle

\* shutdown_signal completes and the select! of run takes that arm: run logs
\* and returns Ok(()); nothing is sent to the listener tasks, whose
\* JoinHandles are dropped
ShutdownSignal ==
    /\ boot.step = "serving"
    /\ boot' = [boot EXCEPT !.step = "signalled"]
    /\ UNCHANGED <<staticVars, limiterVars, bootOthers, taskVars>>

\* main returns after run: the runtime is dropped, and with it every task,
\* listeners and requests in flight alike
ProcessEnds ==
    /\ boot.step = "signalled"
    /\ boot' = [boot EXCEPT !.step = "ended"]
    /\ UNCHANGED <<staticVars, limiterVars, bootOthers, taskVars>>

\* a listener task accepts a request: it does so as long as it runs
AcceptWhileRunning(r) == Accept(r, StartupRequests)

\* the tasks run until the process ends
Running == boot.step \in {"serving", "signalled"}

NextShutdown ==
    \/ ShutdownSignal
    \/ ProcessEnds
    \/ \E r \in Tasks :
         \/ Running /\ AcceptWhileRunning(r)
         \/ Running /\ HttpRequestHandler(r)
         \/ Running /\ HstsHandler(r)
         \/ Running /\ AltSvcHandler(r)
         \/ Running /\ RateLimitHandler(r)
         \/ Running /\ RateLimitOverride(r)
         \/ Running /\ RateLimitRoute(r)
         \/ Running /\ RateLimitDefault(r)
         \/ Running /\ CorsHandler(r)
         \/ Running /\ MethodFilterHandler(r)
         \/ Running /\ InjectHostHeader(r)
         \/ Running /\ ProxyHandler(r)
         \/ Running /\ ProxyAttempt(r)
         \/ Running /\ Finish(r)

SpecShutdown == InitShutdown /\ [][NextShutdown]_vars

-----------------------------------------------------------------------------
(* src/error.rs: the status pages. The directory <config_dir>/status is    *)
(* read by every call of serve_status_page and may change between calls.   *)

MaxCalls == 2

\* the errors of a request that are answered by a status page
ErrorKinds ==
    {"HostNotFound", "NoRouteFound", "BadGateway", "MethodNotAllowed", "TooManyRequests"}

\* the status each kind is served with: the argument its call site gives to
\* serve_status_page
StatusOfKind(kind) ==
    IF kind = "MethodNotAllowed" THEN 405
    ELSE IF kind = "TooManyRequests" THEN 429
    ELSE into_response(VaneError(kind, None)).status

\* the plain-text message of each call site
DefaultMessage(kind) ==
    IF kind = "HostNotFound" THEN "Host not configured or header missing"
    ELSE IF kind = "NoRouteFound" THEN "No route found for this path"
    ELSE IF kind = "BadGateway" THEN "Upstream server error"
    ELSE IF kind = "MethodNotAllowed" THEN "Method Not Allowed"
    ELSE "Too Many Requests"

\* what <code>.html can hold: no readable file (None), or one of two texts
PageFiles == {None, Some("page 1"), Some("page 2")}

\* serve_status_page with its file read made explicit: file is the result
\* of fs::read_to_string, None when it fails
status_page(status, default_message, file) ==
    IF file # None
    THEN [status |-> status, content_type |-> "text/html; charset=utf-8", body |-> file[1]]
    ELSE [status |-> status, content_type |-> "text/plain; charset=utf-8",
          body |-> default_message]

InitPages ==
    /\ matcherIdle
    /\ routerIdle
    /\ quota = None
    /\ boot = None
    /\ tls = None
    /\ acme = None /\ renewal = None
    /\ pages = [dir |-> [code \in {StatusOfKind(kind) : kind \in ErrorKinds} |-> None],
                calls |-> <<>>]
    /\ pipelineIdle

pagesOthers == <<mPattern, mPath, mScore, rPath, rHost, rResult, quota, boot, tls,
                 acme, renewal, staticVars, limiterVars, taskVars>>

\* serve_status_page keeping the page it served first for a status
ServeError_Cached(kind) ==
    /\ Len(pages.calls) < MaxCalls
    /\ LET status == StatusOfKind(kind)
           earlier == { i \in 1..Len(pages.calls) : pages.calls[i].kind = kind }
           response == IF earlier = {}
                       THEN status_page(status, DefaultMessage(kind), pages.dir[status])
                       ELSE pages.calls[CHOOSE i \in earlier : TRUE].response
       IN  pages' = [pages EXCEPT !.calls =
                        Append(@, [kind |-> kind, file |-> pages.dir[status],
                                   response |-> response])]
    /\ UNCHANGED pagesOthers

\* a request ends in an error of the given kind: the call site calls
\* serve_status_page, which reads the file of the status
ServeError(kind) ==
    /\ Len(pages.calls) < MaxCalls
    /\ LET status == StatusOfKind(kind)
       IN  pages' = [pages EXCEPT !.calls =
                        Append(@, [kind |-> kind, file |-> pages.dir[status],
                                   response |-> status_page(status, DefaultMessage(kind),
                                                            pages.dir[status])])]
    /\ UNCHANGED pagesOthers

\* the operator adds, changes or removes a page file
WritePage(code, file) ==
    /\ pages.dir[code] # file
    /\ pages' = [pages EXCEPT !.dir[code] = file]
    /\ UNCHANGED pagesOthers

NextPages ==
    \/ \E kind \in ErrorKinds : ServeError(kind)
    \/ \E code \in DOMAIN pages.dir, file \in PageFiles : WritePage(code, file)

SpecPages == InitPages /\ [][NextPages]_vars

-----------------------------------------------------------------------------
(* src/proxy.rs: the forwarder, on requests with a query and a body and     *)
(* targets written with and without trailing slashes.                      *)

\* three targets behind `/`: one ends in a slash, one in two
ForwardConfig ==
    AppConfig((HostH :>
        [DefaultDomain EXCEPT
            !.https = TRUE, !.http3 = TRUE, !.tls = Some(Tls),
            !.routes = << Route(<<"/">>, <<"A/", "B", "C//">>) >>]))

\* with and without query, body, Origin header and IP headers of the client
ForwardRequests ==
    { [Request(l, IP1, m, None, p, headers) EXCEPT !.query = query, !.body = body] :
        l \in Listeners, m \in {"GET", "POST"}, p \in { <<"/">>, <<"/", "x">> },
        query \in {None, Some(<<"q">>)}, body \in { <<>>, <<"d">> },
        headers \in { HostHeader(HostH),
                      HeaderInsert(HeaderInsert(HostHeader(HostH), "origin", OriginO),
                                   "x-forwarded-for", SpoofIP) } }

NewForwardRequest(r) == Accept(r, ForwardRequests)

InitForward ==
    /\ matcherIdle
    /\ routerIdle
    /\ quota = None
    /\ pages = None /\ acme = None /\ renewal = None
    /\ boot = None
    /\ tls = None
    /\ Startup({ForwardConfig})
    /\ taskIdle

NextForward ==
    \E r \in Tasks :
        \/ NewForwardRequest(r)
        \/ HttpRequestHandler(r)
        \/ HstsHandler(r)
        \/ AltSvcHandler(r)
        \/ RateLimitHandler(r)
        \/ RateLimitOverride(r)
        \/ RateLimitRoute(r)
        \/ RateLimitDefault(r)
        \/ CorsHandler(r)
        \/ MethodFilterHandler(r)
        \/ InjectHostHeader(r)
        \/ ProxyHandler(r)
        \/ ProxyAttempt(r)

SpecForward == InitForward /\ [][NextForward]_vars

-----------------------------------------------------------------------------
(* src/acme_client.rs: fetch_resource, one call.                           *)

RETRY_ATTEMPTS == 5
RETRY_DELAY_SECONDS == 5

\* what reqwest::get can give: a 2xx response whose JSON holds the resource,
\* a 2xx response that does not, 404, another status, or no response
FetchOutcomes == {"success", "success_invalid", "not_found", "other_status", "connect_error"}

\* the outcomes after which the loop sleeps and goes on
Retried == {"other_status", "connect_error"}

InitAcme ==
    /\ matcherIdle
    /\ routerIdle
    /\ quota = None
    /\ boot = None
    /\ tls = None
    /\ pages = None /\ renewal = None
    /\ acme \in { [resource_type |-> t, step |-> "loop", attempt |-> 0, outcomes |-> <<>>,
                   slept |-> 0, result |-> None] : t \in {"certificate", "key"} }
    /\ pipelineIdle

acmeOthers == <<mPattern, mPath, mScore, rPath, rHost, rResult, quota, boot, tls,
                pages, renewal, staticVars, limiterVars, taskVars>>

\* the result of an iteration that returns: Ok for a valid resource, an
\* error for an invalid 2xx body and for 404
Returned(outcome) ==
    IF outcome = "success" THEN Some("Ok")
    ELSE IF outcome = "success_invalid" THEN Some("Err: invalid response")
    ELSE Some("Err: 404 Not Found")

\* one iteration that takes 404 for a failure like any other
FetchAttempt_Retry404 ==
    /\ acme.step = "loop"
    /\ acme.attempt < RETRY_ATTEMPTS
    /\ \E outcome \in FetchOutcomes :
         acme' = [acme EXCEPT
                    !.attempt = @ + 1,
                    !.outcomes = Append(@, outcome),
                    !.step = IF outcome \in Retried \cup {"not_found"}
                             THEN "sleep" ELSE "returned",
                    !.result = IF outcome \in Retried \cup {"not_found"}
                               THEN None ELSE Returned(outcome)]
    /\ UNCHANGED acmeOthers

\* one iteration of `for attempt in 1..=RETRY_ATTEMPTS` up to its return or
\* to the sleep
FetchAttempt ==
    /\ acme.step = "loop"
    /\ acme.attempt < RETRY_ATTEMPTS
    /\ \E outcome \in FetchOutcomes :
         acme' = [acme EXCEPT
                    !.attempt = @ + 1,
                    !.outcomes = Append(@, outcome),
                    !.step = IF outcome \in Retried THEN "sleep" ELSE "returned",
                    !.result = IF outcome \in Retried THEN None ELSE Returned(outcome)]
    /\ UNCHANGED acmeOthers

\* tokio::time::sleep(Duration::from_secs(RETRY_DELAY_SECONDS)) at the end of
\* an iteration
FetchSleep ==
    /\ acme.step = "sleep"
    /\ acme' = [acme EXCEPT !.step = "loop", !.slept = @ + RETRY_DELAY_SECONDS]
    /\ UNCHANGED acmeOthers

\* the loop is over: Err("Failed to fetch .. after 5 attempts.")
FetchExhausted ==
    /\ acme.step = "loop"
    /\ acme.attempt = RETRY_ATTEMPTS
    /\ acme' = [acme EXCEPT !.step = "returned", !.result = Some("Err: attempts used")]
    /\ UNCHANGED acmeOthers

NextAcme == FetchAttempt \/ FetchSleep \/ FetchExhausted

SpecAcme == InitAcme /\ [][NextAcme]_vars

-----------------------------------------------------------------------------
(* src/server/mod.rs, src/ratelimit.rs: the keys of the route and override *)
(* limiters, and the choice among the patterns that match a request.       *)

\* a host whose name is that of h followed by one more character
HostHZ == <<"h", "z">>

\* two patterns of one host that match /a/b with the same score
TieConfig ==
    AppConfig((HostH :>
        [DefaultDomain EXCEPT
            !.routes = << Route(<<"/">>, <<"A">>) >>,
            !.rate_limit =
                [default   |-> None,
                 routes    |-> << RouteRule(<<"/", "a", "/", "*">>, Rule(OneSecond, 1)),
                                  RouteRule(<<"/", "*", "/", "b">>, Rule(OneSecond, 2)) >>,
                 overrides |-> << RouteRule(<<"/", "b", "/", "*">>, Rule(OneSecond, 1)),
                                  RouteRule(<<"/", "*", "/", "a">>, Rule(OneSecond, 2)) >>]]))

\* patterns written with their leading slash, none of which ties
PlainKeysConfig ==
    AppConfig((HostH :>
                 [DefaultDomain EXCEPT
                     !.routes = << Route(<<"/">>, <<"A">>) >>,
                     !.rate_limit =
                         [default   |-> None,
                          routes    |-> << RouteRule(<<"/", "a">>, Rule(OneSecond, 1)),
                                           RouteRule(<<"/", "a", "/", "b">>,
                                                     Rule(OneSecond, 2)) >>,
                          overrides |-> << RouteRule(<<"/", "b">>, Rule(OneSecond, 1)) >>]])
           @@ (HostHZ :>
                 [DefaultDomain EXCEPT
                     !.routes = << Route(<<"/">>, <<"B">>) >>,
                     !.rate_limit =
                         [default   |-> None,
                          routes    |-> << RouteRule(<<"/", "a">>, Rule(OneSecond, 2)) >>,
                          overrides |-> <<>>]]))

\* the pattern z/a of host h, written without leading slash, next to the
\* pattern /a of host hz
JoinedKeysConfig ==
    AppConfig((HostH :>
                 [DefaultDomain EXCEPT
                     !.routes = << Route(<<"/">>, <<"A">>) >>,
                     !.rate_limit =
                         [default   |-> None,
                          routes    |-> << RouteRule(<<"z", "/", "a">>, Rule(OneSecond, 1)) >>,
                          overrides |-> <<>>]])
           @@ (HostHZ :>
                 [DefaultDomain EXCEPT
                     !.routes = << Route(<<"/">>, <<"B">>) >>,
                     !.rate_limit =
                         [default   |-> None,
                          routes    |-> << RouteRule(<<"/", "a">>, Rule(OneSecond, 2)) >>,
                          overrides |-> <<>>]]))

KeysConfigs == {TieConfig, PlainKeysConfig, JoinedKeysConfig}

KeysRequests ==
    { Request("http", IP1, "GET", None, p, HostHeader(host)) :
        host \in {HostH, HostHZ},
        p \in { <<"/", "a">>, <<"/", "a", "/", "b">>, <<"/", "b", "/", "a">>,
                <<"/", "z", "/", "a">> } }

NewKeysRequest(r) == Accept(r, KeysRequests)

InitKeys ==
    /\ matcherIdle
    /\ routerIdle
    /\ quota = None
    /\ pages = None /\ acme = None /\ renewal = None
    /\ boot = None
    /\ tls = None
    /\ Startup(KeysConfigs)
    /\ taskIdle

NextKeys ==
    \E r \in Tasks :
        \/ NewKeysRequest(r)
        \/ HttpRequestHandler(r)
        \/ RateLimitHandler(r)
        \/ RateLimitOverride(r)
        \/ RateLimitRoute(r)
        \/ RateLimitDefault(r)
        \/ CorsHandler(r)
        \/ MethodFilterHandler(r)
        \/ ProxyHandler(r)
        \/ ProxyAttempt(r)
        \/ Finish(r)

SpecKeys == InitKeys /\ [][NextKeys]_vars

\* ---------------------------------------------------------------------------
\* The failover loop on its own: routes with one, two and three targets, one
\* of them listing the same URL twice.
FailoverListsConfig ==
    AppConfig((HostH :>
        [DefaultDomain EXCEPT
            !.routes = << Route(<<"/">>, <<"A", "B", "C">>),
                          Route(<<"/", "d">>, <<"A", "A">>),
                          Route(<<"/", "s">>, <<"B">>) >>]))

FailoverRequests ==
    { Request("http", IP1, "GET", None, p, HostHeader(HostH)) :
        p \in { <<"/">>, <<"/", "d">>, <<"/", "s">> } }

NewFailoverRequest(r) == Accept(r, FailoverRequests)

InitFailover ==
    /\ matcherIdle
    /\ routerIdle
    /\ quota = None
    /\ pages = None /\ acme = None /\ renewal = None
    /\ boot = None
    /\ tls = None
    /\ Startup({FailoverListsConfig})
    /\ taskIdle

NextFailover ==
    \E r \in Tasks :
        \/ NewFailoverRequest(r)
        \/ HttpRequestHandler(r)
        \/ RateLimitHandler(r)
        \/ RateLimitOverride(r)
        \/ RateLimitRoute(r)
        \/ RateLimitDefault(r)
        \/ CorsHandler(r)
        \/ MethodFilterHandler(r)
        \/ ProxyHandler(r)
        \/ ProxyAttempt(r)
        \/ Finish(r)

\* every outbound request of the client completes with a response or an
\* error, so an iteration of the loop that has started is finished
SpecFailover ==
    InitFailover /\ [][NextFailover]_vars /\ \A r \in Tasks : WF_vars(ProxyAttempt(r))

\* ---------------------------------------------------------------------------
\* The certificate refresh task: the hourly check, refresh_all_certificates,
\* and the files under cert_dir.
MaxTicks == 3

CHECK_INTERVAL == 3600
REFRESH_AGE == 86400

RenewalDomains ==
    { (HostH :> [DefaultDomain EXCEPT !.https = TRUE, !.tls = Some(Tls)]),
      (HostH :> [DefaultDomain EXCEPT !.https = TRUE, !.tls = Some(Tls)])
        @@ (HostZ :> [DefaultDomain EXCEPT !.https = TRUE, !.tls = Some(Tls)]),
      (HostH :> [DefaultDomain EXCEPT !.https = TRUE, !.tls = Some(Tls)])
        @@ (HostZ :> DefaultDomain),
      (HostZ :> DefaultDomain) }

\* the age of the timestamp file when the task starts: no file, just
\* written, 23 hours old, 24 hours old
TimestampsAtStart == {None, Some(0), Some(0 - 82800), Some(0 - REFRESH_AGE)}

cert_dir == "cert_dir"

tmp_dir_InPlace == cert_dir

\* app_config.cert_dir.join("tmp")
tmp_dir == "cert_dir/tmp"

File(dir, name, ext) == [dir |-> dir, host |-> name, ext |-> ext]

\* get_cert_paths_for_host: <base_dir>/<host>.pem and <base_dir>/<host>.key
get_cert_paths_for_host(base_dir, name) ==
    <<File(base_dir, name, "pem"), File(base_dir, name, "key")>>

RenewalFiles ==
    { File(dir, name, ext) : dir \in {cert_dir, tmp_dir}, name \in {HostH, HostZ},
                             ext \in {"pem", "key"} }

\* the hosts with https and a tls table, in an iteration order of the map
hosts_to_refresh(domains) ==
    IterationOrders({ name \in DOMAIN domains :
                        domains[name].https /\ domains[name].tls # None })

\* files hold the number of the run that wrote them: 0 for the files
\* installed before the task started; a file that is absent holds -1
InitRenewal ==
    /\ matcherIdle
    /\ routerIdle
    /\ quota = None
    /\ boot = None
    /\ tls = None
    /\ pages = None /\ acme = None
    /\ \E domains \in RenewalDomains, stamp \in TimestampsAtStart :
          renewal = [domains |-> domains, step |-> "wait", hosts |-> <<>>, i |-> 0,
                     files |-> [f \in RenewalFiles |->
                                  IF f.dir = cert_dir /\ f.host \in DOMAIN domains
                                     /\ domains[f.host].tls # None
                                  THEN 0 ELSE 0 - 1],
                     timestamp |-> stamp, clock |-> 0, ticks |-> 0, run |-> 0,
                     result |-> "none", failed |-> "none", last |-> "none",
                     before |-> <<>>]
    /\ pipelineIdle

renewalOthers == <<mPattern, mPath, mScore, rPath, rHost, rResult, quota, boot, tls,
                   pages, acme, staticVars, limiterVars, taskVars>>

\* fs::metadata(timestamp_file): older than 24 hours, or no file
should_refresh(timestamp, now) ==
    IF timestamp = None THEN TRUE ELSE now - timestamp[1] > REFRESH_AGE

\* interval.tick() and the decision to refresh; with nothing to refresh
\* refresh_all_certificates returns Ok(false) before it touches a file
HourlyCheck ==
    /\ renewal.step = "wait"
    /\ renewal.ticks < MaxTicks
    /\ IF ~should_refresh(renewal.timestamp, renewal.clock)
       THEN renewal' = [renewal EXCEPT !.ticks = @ + 1, !.clock = @ + CHECK_INTERVAL,
                                       !.last = "none"]
       ELSE \E hosts \in hosts_to_refresh(renewal.domains) :
              renewal' = [renewal EXCEPT
                            !.ticks = @ + 1,
                            !.run = @ + 1,
                            !.hosts = hosts,
                            !.i = 1,
                            !.failed = "none",
                            !.before = Some([files |-> renewal.files,
                                             timestamp |-> renewal.timestamp]),
                            !.result = IF hosts = <<>> THEN "Ok(false)" ELSE "none",
                            !.step = IF hosts = <<>> THEN "result" ELSE "create_dir"]
    /\ UNCHANGED renewalOthers

\* fs::create_dir_all(&tmp_dir)?
CreateTmpDir ==
    /\ renewal.step = "create_dir"
    /\ \E ok \in BOOLEAN :
          renewal' = [renewal EXCEPT
                        !.step = IF ok THEN "fetch" ELSE "result",
                        !.result = IF ok THEN @ ELSE "Err",
                        !.failed = IF ok THEN @ ELSE "create_dir"]
    /\ UNCHANGED renewalOthers

FetchResults ==
    {"ok", "certificate_fetch_fails", "key_fetch_fails", "certificate_write_fails",
     "key_write_fails"}

\* fetch_and_save_certificate(host, server_url, tmp paths)?: both resources
\* are fetched before either file is written
FetchHost ==
    /\ renewal.step = "fetch"
    /\ LET paths == get_cert_paths_for_host(tmp_dir, renewal.hosts[renewal.i])
       IN  \E outcome \in FetchResults :
             renewal' = [renewal EXCEPT
                !.files = IF outcome = "ok"
                          THEN [@ EXCEPT ![paths[1]] = renewal.run,
                                         ![paths[2]] = renewal.run]
                          ELSE IF outcome = "key_write_fails"
                          THEN [@ EXCEPT ![paths[1]] = renewal.run]
                          ELSE @,
                !.i = IF outcome # "ok" THEN @
                      ELSE IF renewal.i = Len(renewal.hosts) THEN 1 ELSE @ + 1,
                !.step = IF outcome # "ok" THEN "result"
                         ELSE IF renewal.i = Len(renewal.hosts) THEN "move" ELSE "fetch",
                !.result = IF outcome # "ok" THEN "Err" ELSE @,
                !.failed = IF outcome # "ok" THEN "fetch" ELSE @]
    /\ UNCHANGED renewalOthers

\* fs::rename(from, to): the destination takes the content, the source is gone
rename(files, from, to) ==
    IF from = to THEN files
    ELSE [files EXCEPT ![to] = files[from], ![from] = 0 - 1]

\* one iteration of the second loop: rename the certificate, then the key
MoveHost ==
    /\ renewal.step = "move"
    /\ LET tmp == get_cert_paths_for_host(tmp_dir, renewal.hosts[renewal.i])
           final == get_cert_paths_for_host(cert_dir, renewal.hosts[renewal.i])
       IN  \E outcome \in {"ok", "certificate_rename_fails", "key_rename_fails"} :
             renewal' = [renewal EXCEPT
                !.files = IF outcome = "ok"
                          THEN rename(rename(@, tmp[1], final[1]), tmp[2], final[2])
                          ELSE IF outcome = "key_rename_fails"
                          THEN rename(@, tmp[1], final[1])
                          ELSE @,
                !.i = IF outcome = "ok" THEN @ + 1 ELSE @,
                !.step = IF outcome # "ok" THEN "result"
                         ELSE IF renewal.i = Len(renewal.hosts) THEN "cleanup" ELSE "move",
                !.result = IF outcome # "ok" THEN "Err" ELSE @,
                !.failed = IF outcome # "ok" THEN "rename" ELSE @]
    /\ UNCHANGED renewalOthers

\* fs::remove_dir_all(tmp_dir)?; Ok(true)
RemoveTmpDir ==
    /\ renewal.step = "cleanup"
    /\ \E ok \in BOOLEAN :
          renewal' = [renewal EXCEPT
                        !.files = IF ok THEN [f \in RenewalFiles |->
                                                IF f.dir = tmp_dir /\ tmp_dir # cert_dir
                                                THEN 0 - 1 ELSE @[f]]
                                  ELSE @,
                        !.step = "result",
                        !.result = IF ok THEN "Ok(true)" ELSE "Err",
                        !.failed = IF ok THEN @ ELSE "cleanup"]
    /\ UNCHANGED renewalOthers

\* the match on the result in spawn_cert_refresh_task: the timestamp is
\* written for Ok(true) (and the process exits) and for Ok(false)
RefreshResult ==
    /\ renewal.step = "result"
    /\ renewal' = [renewal EXCEPT
                     !.timestamp = IF renewal.result = "Err" THEN @
                                   ELSE Some(renewal.clock),
                     !.step = IF renewal.result = "Ok(true)" THEN "exited" ELSE "wait",
                     !.clock = @ + CHECK_INTERVAL,
                     !.last = renewal.result]
    /\ UNCHANGED renewalOthers

NextRenewal ==
    \/ HourlyCheck
    \/ CreateTmpDir
    \/ FetchHost
    \/ MoveHost
    \/ RemoveTmpDir
    \/ RefreshResult

SpecRenewal == InitRenewal /\ [][NextRenewal]_vars

-----------------------------------------------------------------------------
(* One client's bucket of a limiter built from a rule, under a clock that  *)
(* ticks in seconds.                                                       *)

MaxRequests == 2
MaxWindows == 2

\* Quota::with_period(period).allow_burst(requests_burst): one cell is
\* replenished every `period`, and at most requests_burst cells are held
Quota(rule) ==
    [replenish_1_per |-> parse_std_duration(rule.period)[1], max_burst |-> rule.requests]

QuotaRules ==
    { Rule(period, n) :
        period \in {Period(1, "s"), Period(2, "s"), Period(3, "s"), Period(1, "m")},
        n \in 1..MaxRequests }

\* the client of the bucket
QuotaClient == IP1

InitQuota ==
    /\ matcherIdle
    /\ routerIdle
    /\ pipelineIdle
    /\ boot = None
    /\ tls = None
    /\ pages = None /\ acme = None /\ renewal = None
    /\ \E rule \in QuotaRules :
          /\ RuleEnabled(rule)
          /\ quota = [rule      |-> rule,
                      quota     |-> Quota(rule),
                      limiter   |-> Limiter(Quota(rule).max_burst),
                      since     |-> 0,      \* seconds since the last cell came back
                      elapsed   |-> -1,     \* seconds since the bucket was emptied
                      admitted  |-> 0,      \* checks admitted in the current window
                      saturated |-> FALSE]  \* a check was rejected in this second

\* the client sends a request: limiter.check_key(&ip)
QuotaCheck ==
    /\ ~quota.saturated
    /\ LET admitted == Admits(quota.limiter, QuotaClient)
           after == AfterCheck(quota.limiter, QuotaClient)
       IN  quota' = [quota EXCEPT
                       !.limiter = after,
                       !.saturated = ~admitted,
                       !.elapsed = IF @ = -1 /\ after.tokens[QuotaClient] = 0 THEN 0 ELSE @,
                       !.admitted = IF admitted /\ quota.elapsed >= 0 THEN @ + 1 ELSE @]
    /\ UNCHANGED <<mPattern, mPath, mScore, rPath, rHost, rResult, boot, tls, pages, acme, renewal>>
    /\ UNCHANGED <<staticVars, limiterVars, taskVars>>

\* a second passes; once the bucket has been emptied the client sends in
\* every second until it is rejected. A bucket that is not full gets one
\* cell back every replenish_1_per seconds
QuotaTick ==
    /\ quota.elapsed = -1 \/ quota.saturated
    /\ quota.elapsed < MaxWindows * quota.quota.replenish_1_per
    /\ LET filling == quota.limiter.tokens[QuotaClient] < quota.quota.max_burst
           due == filling /\ quota.since + 1 = quota.quota.replenish_1_per
       IN  quota' = [quota EXCEPT
                       !.limiter = IF due THEN AfterReplenish(@, QuotaClient) ELSE @,
                       !.since = IF filling /\ ~due THEN @ + 1 ELSE 0,
                       !.elapsed = IF @ >= 0 THEN @ + 1 ELSE @,
                       !.admitted = IF quota.elapsed >= 0
                                       /\ quota.elapsed % quota.quota.replenish_1_per = 0
                                    THEN 0 ELSE @,
                       !.saturated = FALSE]
    /\ UNCHANGED <<mPattern, mPath, mScore, rPath, rHost, rResult, boot, tls, pages, acme, renewal>>
    /\ UNCHANGED <<staticVars, limiterVars, taskVars>>

NextQuota == QuotaCheck \/ QuotaTick

SpecQuota == InitQuota /\ [][NextQuota]_vars

-----------------------------------------------------------------------------
(* Claims about the path matcher (SpecMatch).                              *)

\* The non-empty segments of s, stated without the splitting loop: the
\* maximal runs of characters other than "/", in the order of their start.
SegmentBounds(s) ==
    { b \in (1..Len(s)) \X (1..Len(s)) :
        /\ b[1] <= b[2]
        /\ \A k \in b[1]..b[2] : s[k] # "/"
        /\ b[1] = 1 \/ s[b[1] - 1] = "/"
        /\ b[2] = Len(s) \/ s[b[2] + 1] = "/" }

SegmentsOf(s) ==
    LET B == SegmentBounds(s)
        nth(k) == CHOOSE b \in B : Cardinality({c \in B : c[1] < b[1]}) = k - 1
    IN  [k \in 1..Cardinality(B) |-> SubSeq(s, nth(k)[1], nth(k)[2])]

\* C8: for every pattern P and path X, the score is defined iff, after
\* dropping empty segments, P has no more segments than X and every
\* segment of P other than `*` equals the segment of X at the same index;
\* the score is then (number of non-`*` segments of P, number of segments
\* of P), and pattern `/` matches every path with score (0,0).
C8_ScoreIsSegmentPrefix ==
    mScore # None =>
        LET P == SegmentsOf(mPattern)
            X == SegmentsOf(mPath)
            fits == /\ Len(P) <= Len(X)
                    /\ \A i \in 1..Len(P) : P[i] # <<"*">> => P[i] = X[i]
            literal == {i \in 1..Len(P) : P[i] # <<"*">>}
        IN  /\ (mScore[1] # None) <=> fits
            /\ fits => mScore[1] = Some(MatchScore(Cardinality(literal), Len(P)))
            /\ mPattern = <<"/">> => mScore[1] = Some(MatchScore(0, 0))

\* C8 witness: pattern a/* scored against path a//b, whose empty segment is
\* dropped, gives (1,2).
C8_Witness ==
    /\ mPattern = <<"a", "/", "*">>
    /\ mPath = <<"a", "/", "/", "b">>
    /\ mScore = Some(Some(MatchScore(1, 2)))

-----------------------------------------------------------------------------
(* Claims about the router (SpecRoute).                                    *)

\* the routes of the request's host that match the request's path
MatchingRoutes(routes, path) ==
    {i \in 1..Len(routes) : get_match_score(routes[i].path, path) # None}

RouteScore(routes, path, i) == get_match_score(routes[i].path, path)[1]

\* the matching routes whose score no matching route exceeds
BestRoutes(routes, path) ==
    {i \in MatchingRoutes(routes, path) :
        \A j \in MatchingRoutes(routes, path) :
            ~ScoreGt(RouteScore(routes, path, j), RouteScore(routes, path, i))}

\* every reordering of a route list
Reorderings(routes) ==
    { [i \in 1..Len(routes) |-> routes[f[i]]] :
        f \in {g \in [1..Len(routes) -> 1..Len(routes)] :
                 \A a, b \in 1..Len(routes) : a # b => g[a] # g[b]} }

TiedDistinctPatterns(routes, path, i, j) ==
    /\ i \in MatchingRoutes(routes, path)
    /\ j \in MatchingRoutes(routes, path)
    /\ routes[i].path # routes[j].path
    /\ RouteScore(routes, path, i) = RouteScore(routes, path, j)

\* C6 as stated: two distinct patterns of the host match the path with
\* identical scores => the router returns AmbiguousRoute.
C6_AnyTieIsAmbiguous ==
    (rResult # None /\ rHost \in DOMAIN config.domains) =>
        LET routes == config.domains[rHost].routes
        IN  (\E i, j \in 1..Len(routes) : TiedDistinctPatterns(routes, rPath, i, j))
                => rResult[1] = RouteErr("AmbiguousRoute")

\* C6 amended: two distinct patterns of the host match the path with
\* identical scores and no matching route of the host scores higher => the
\* router returns AmbiguousRoute.
C6_TieAtBestIsAmbiguous ==
    (rResult # None /\ rHost \in DOMAIN config.domains) =>
        LET routes == config.domains[rHost].routes
        IN  (\E i, j \in BestRoutes(routes, rPath) : TiedDistinctPatterns(routes, rPath, i, j))
                => rResult[1] = RouteErr("AmbiguousRoute")

\* C6 witness: /a/* and /*/b both match /a/b with score (1,2), nothing
\* scores higher, and the router has answered AmbiguousRoute.
C6_Witness ==
    /\ rResult = Some(RouteErr("AmbiguousRoute"))
    /\ rPath = <<"/", "a", "/", "b">>
    /\ Len(config.domains[rHost].routes) = 2
    /\ config.domains[rHost].routes[1].path = <<"/", "a", "/", "*">>
    /\ config.domains[rHost].routes[2].path = <<"/", "*", "/", "b">>

-----------------------------------------------------------------------------
(* The forwarder.                                                          *)

IsResponseBelow500(outcome) == outcome.kind = "response" /\ outcome.status < 500

GaveErrorOr500(outcome) ==
    \/ outcome.kind = "transport_error"
    \/ outcome.kind = "response" /\ outcome.status >= 500

\* the targets whose iteration sent a request, in the order of the iterations
ContactedTargets(f) ==
    LET sent == SelectSeq([k \in 1..Len(f.outcomes) |-> k],
                          LAMBDA k : f.outcomes[k].kind # "invalid_url")
    IN  [i \in 1..Len(sent) |-> f.targets[sent[i]]]

\* the forwarder's order: the requests sent so far went to the targets in
\* configured order, each at most once; every target the loop has left
\* satisfies `mayLeave`; and a response with status < 500 is the last
\* iteration, is the one response the client gets, and comes from the last
\* target contacted
ForwardsInOrder(r, mayLeave(_)) ==
    LET f == fwd[r]
        n == Len(f.outcomes)
    IN  /\ [i \in 1..Len(attempts[r]) |-> attempts[r][i].target] = ContactedTargets(f)
        /\ \A k \in 1..(f.idx - 1) : k <= n /\ mayLeave(f.outcomes[k])
        /\ \A k \in 1..n :
              IsResponseBelow500(f.outcomes[k]) =>
                 /\ k = n /\ f.idx = k
                 /\ pc[r] = "done"
                 /\ Len(resp[r]) = 1
                 /\ resp[r][1].status = f.outcomes[k].status
                 /\ resp[r][1].from = f.targets[k]
                 /\ attempts[r][Len(attempts[r])].target = f.targets[k]

\* C1 as stated: the forwarder contacts the targets strictly in configured
\* order, leaves a target only after it gave a transport error or a response
\* with status >= 500, and after the first response with status < 500
\* returns that response exactly once and contacts no later target.
C1_LeavesOnlyAfterErrorOr500 ==
    \A r \in Tasks : ForwardsInOrder(r, GaveErrorOr500)

LeftAfterFailure(outcome) == outcome.kind = "invalid_url" \/ GaveErrorOr500(outcome)

\* C1 amended: the forwarder contacts the targets strictly in configured
\* order, leaves a target only after its URL failed to parse (the target is
\* then not contacted), it gave a transport error or it gave a response with
\* status >= 500, and after the first response with status < 500 returns that
\* response exactly once and contacts no later target.
C1_FailoverOrder ==
    \A r \in Tasks : ForwardsInOrder(r, LeftAfterFailure)

\* C1 witness: A's transport failed, B's URL did not parse, C answered 200:
\* requests went to A and C, and the client got C's response.
C1_Witness ==
    \E r \in Tasks :
        /\ pc[r] = "done"
        /\ fwd[r].targets = <<"A", "B", "C">>
        /\ fwd[r].outcomes = << Outcome("transport_error", 0), Outcome("invalid_url", 0),
                                Outcome("response", 200) >>
        /\ Len(attempts[r]) = 2
        /\ attempts[r][1].target = "A" /\ attempts[r][2].target = "C"
        /\ Len(resp[r]) = 1 /\ resp[r][1].from = "C" /\ resp[r][1].status = 200

Is4xx(outcome) ==
    outcome.kind = "response" /\ 400 <= outcome.status /\ outcome.status <= 499

\* C2: a target's response with a status in 400..499 ends the loop: the
\* client receives that response with that status, and no later target is
\* contacted.
C2_ClientErrorNeverFailsOver ==
    \A r \in Tasks :
        \A k \in 1..Len(fwd[r].outcomes) :
            Is4xx(fwd[r].outcomes[k]) =>
               /\ k = Len(fwd[r].outcomes)
               /\ fwd[r].idx = k
               /\ pc[r] = "done"
               /\ resp[r] = << WrapResponse(config, req[r][1], "proxy_handler",
                                  Response(fwd[r].outcomes[k].status, fwd[r].targets[k], None)) >>
               /\ attempts[r] # <<>>
               /\ attempts[r][Len(attempts[r])].target = fwd[r].targets[k]

\* C2 witness: A answered 404 in front of B and C; only A was contacted and
\* the client got A's 404.
C2_Witness ==
    \E r \in Tasks :
        /\ fwd[r].targets = <<"A", "B", "C">>
        /\ fwd[r].outcomes = << Outcome("response", 404) >>
        /\ Len(attempts[r]) = 1 /\ attempts[r][1].target = "A"
        /\ Len(resp[r]) = 1 /\ resp[r][1].status = 404 /\ resp[r][1].from = "A"

IsBadGateway(res) == res.error # None /\ res.error[1].kind = "BadGateway"

\* every target of the route has been tried and each one satisfies `failed`
\* => the client receives one response, 502, made from BadGateway with the
\* cause recorded for the last target; and no BadGateway while a target
\* answered with a status < 500
AllFailedIsBadGateway(r, failed(_)) ==
    LET f == fwd[r]
        n == Len(f.targets)
    IN  /\ (/\ n > 0
            /\ Len(f.outcomes) = n
            /\ \A k \in 1..n : failed(f.outcomes[k]))
           => /\ pc[r] = "done"
              /\ Len(resp[r]) = 1
              /\ resp[r][1].status = 502
              /\ resp[r][1].error =
                    Some(VaneError("BadGateway",
                                   Some(FailureCause(f.outcomes[n], f.targets[n]))))
        /\ (\E i \in 1..Len(resp[r]) : IsBadGateway(resp[r][i]))
           => \A k \in 1..Len(f.outcomes) : ~IsResponseBelow500(f.outcomes[k])

\* C3 as stated: if every target of the matched route fails (URL parse
\* error, transport error or status >= 500), the forwarder produces
\* BadGateway with the cause of the last attempted target and the client
\* receives 502; BadGateway is never produced while some target returned a
\* status < 500.
C3_AllFailedFrom500 ==
    \A r \in Tasks : AllFailedIsBadGateway(r, LeftAfterFailure)

FailedAttempt(outcome) ==
    \/ outcome.kind \in {"invalid_url", "transport_error"}
    \/ outcome.kind = "response" /\ 500 <= outcome.status /\ outcome.status <= 599

\* C3 amended: if every target of the matched route fails (URL parse error,
\* transport error or a status in 500..599), the forwarder produces
\* BadGateway with the cause of the last attempted target and the client
\* receives 502; BadGateway is never produced while some target returned a
\* status < 500.
C3_AllFailedIsBadGateway ==
    \A r \in Tasks : AllFailedIsBadGateway(r, FailedAttempt)

\* C3 witness: A answered 500, B's URL did not parse, C's transport failed;
\* the client got 502 carrying C's transport error.
C3_Witness ==
    \E r \in Tasks :
        /\ fwd[r].targets = <<"A", "B", "C">>
        /\ fwd[r].outcomes = << Outcome("response", 500), Outcome("invalid_url", 0),
                                Outcome("transport_error", 0) >>
        /\ pc[r] = "done"
        /\ Len(resp[r]) = 1 /\ resp[r][1].status = 502
        /\ resp[r][1].error = Some(VaneError("BadGateway",
                                             Some(Cause("transport_error", "C", 0))))

StrippedIpHeaders == {"x-real-ip", "x-forwarded", "forwarded-for", "forwarded"}

\* C4: every request sent to a target, on every listener, carries no
\* x-real-ip, x-forwarded, forwarded-for or forwarded header, and exactly one
\* X-Forwarded-For value: the client's IP (so none of the inbound values).
C4_OutboundIpHeaders ==
    \A r \in Tasks :
        \A i \in 1..Len(attempts[r]) :
            /\ \A name \in StrippedIpHeaders : attempts[r][i].headers[name] = <<>>
            /\ attempts[r][i].headers["x-forwarded-for"] = << req[r][1].ip >>

\* C4 witness: a request that arrived over HTTP/3 with every one of the five
\* headers set to another address has been sent to a target.
C4_Witness ==
    \E r \in Tasks :
        /\ req[r] # None
        /\ req[r][1].listener = "h3"
        /\ \A name \in StrippedIpHeaders : req[r][1].headers[name] # <<>>
        /\ req[r][1].headers["x-forwarded-for"] = <<SpoofIP, SpoofIP>>
        /\ Len(attempts[r]) >= 1
        /\ attempts[r][1].headers["x-forwarded-for"] = <<IP1>>

-----------------------------------------------------------------------------
(* Tied routes in the pipeline.                                            *)

\* the routes of the request's host tie at the best score for its path
RouteIsTied(request) ==
    LET host == TypedHeaderHost(request)
    IN  /\ host # None
        /\ hostname(host[1]) \in DOMAIN config.domains
        /\ LET routes == config.domains[hostname(host[1])].routes
           IN  \E i, j \in BestRoutes(routes, request.path) : i # j

\* C7: a request whose route is tied is never sent to a backend, and once it
\* has reached the router the client's response is the 500 of AmbiguousRoute.
C7_TiedRouteIs500 ==
    \A r \in Tasks :
        (req[r] # None /\ RouteIsTied(req[r][1])) =>
            /\ attempts[r] = <<>>
            /\ fwd[r] = NoForward
            /\ (\E i \in 1..Len(visited[r]) : visited[r][i] = "proxy_handler") =>
                  /\ pc[r] = "done"
                  /\ Len(resp[r]) = 1
                  /\ resp[r][1].status \in 500..599
                  /\ resp[r][1].from = "vane"
                  /\ resp[r][1].error = Some(VaneError("AmbiguousRoute", None))

\* C7 witness: /t/x, for which the host has two routes /t/*, has been routed
\* and answered with 500; no request was sent.
C7_Witness ==
    \E r \in Tasks :
        /\ req[r] # None
        /\ req[r][1].path = <<"/", "t", "/", "x">>
        /\ RouteIsTied(req[r][1])
        /\ visited[r] # <<>> /\ visited[r][Len(visited[r])] = "proxy_handler"
        /\ Len(resp[r]) = 1 /\ resp[r][1].status = 500
        /\ attempts[r] = <<>>

-----------------------------------------------------------------------------
(* The rate-limit layers.                                                  *)

LayerRank(layer) ==
    CASE layer = "shield" -> 1 [] layer = "override" -> 2
      [] layer = "route" -> 3 [] layer = "default" -> 4

HasVisited(r, handler) == \E i \in 1..Len(visited[r]) : visited[r][i] = handler

\* the cells each client has left in a bucket
TokensOf(limiter) == limiter.tokens

\* no client has fewer cells after the step than before
NoTokenTaken(before, after) == \A ip \in ClientIPs : after[ip] >= before[ip]

\* the checks of one request, in the order they were made: shield first,
\* then by layer; a rejection is the last check, is answered with 429, and
\* the request goes neither to the router nor to a target; a request that
\* is let through without an override was checked against the default rule
LayersInOrder(r) ==
    LET c == consulted[r]
    IN  /\ c # <<>> => c[1].layer = "shield"
        /\ \A i, j \in 1..Len(c) : i < j => LayerRank(c[i].layer) < LayerRank(c[j].layer)
        /\ \A i \in 1..Len(c) :
              ~c[i].admitted =>
                 /\ i = Len(c)
                 /\ pc[r] = "done"
                 /\ Len(resp[r]) = 1
                 /\ resp[r][1].status = 429
                 /\ resp[r][1].from = "vane"
                 /\ ~HasVisited(r, "proxy_handler")
                 /\ fwd[r] = NoForward
                 /\ attempts[r] = <<>>
        /\ (/\ req[r] # None
            /\ DomainOf(config, ExtractHost(req[r][1])) # None
            /\ HasVisited(r, NextHandler(req[r][1].listener, "rate_limit_handler"))
            /\ \A i \in 1..Len(c) : c[i].layer # "override")
           => c[Len(c)].layer = "default"

\* a step in which a layer rejects takes no token from any bucket
RejectionTakesNothing(r) ==
    (/\ consulted'[r] # consulted[r]
     /\ consulted'[r] # <<>>
     /\ ~consulted'[r][Len(consulted'[r])].admitted)
    => UNCHANGED limiterVars

\* C9: within one request the layers are consulted in the order shield,
\* override, route, default; the first rejection ends the check with 429,
\* no later layer is consulted, no counter changes in the rejecting step,
\* and the request reaches neither the router nor a backend.
C9_FirstRejectionEnds ==
    /\ [](\A r \in Tasks : LayersInOrder(r))
    /\ [][\A r \in Tasks : RejectionTakesNothing(r)]_vars

\* C9 witness: the route rule rejected the request after the shield admitted
\* it; the default bucket, still full for the client, was not consulted, and
\* the client got 429.
C9_Witness ==
    \E r \in Tasks :
        /\ req[r] # None
        /\ Len(consulted[r]) = 2
        /\ consulted[r][1] = Check("shield", <<>>, TRUE)
        /\ consulted[r][2].layer = "route" /\ ~consulted[r][2].admitted
        /\ configurable_limiter.tokens[req[r][1].ip] = configurable_limiter.burst
        /\ ~configurable_limiter.unlimited
        /\ Len(resp[r]) = 1 /\ resp[r][1].status = 429
        /\ ~HasVisited(r, "proxy_handler")

OverrideAdmitted(c) ==
    \E i \in 1..Len(c) : c[i].layer = "override" /\ c[i].admitted

\* after an override admitted the request, the request is with the handlers
\* inside the rate limiter and was checked against no route or default rule
OverrideBypasses(r) ==
    OverrideAdmitted(consulted[r]) =>
        /\ \A i \in 1..Len(consulted[r]) : consulted[r][i].layer \notin {"route", "default"}
        /\ pc[r] \notin {"rl_override", "rl_route", "rl_default"}
        /\ \/ pc[r] = NextHandler(req[r][1].listener, "rate_limit_handler")
           \/ HasVisited(r, NextHandler(req[r][1].listener, "rate_limit_handler"))

\* no step of a request that an override admitted takes a token of a route
\* or default bucket
OverrideLeavesCounters(r) ==
    OverrideAdmitted(consulted'[r]) =>
        /\ NoTokenTaken(TokensOf(configurable_limiter), TokensOf(configurable_limiter'))
        /\ \A key \in DOMAIN route_limiters :
              NoTokenTaken(TokensOf(route_limiters[key]), TokensOf(route_limiters'[key]))

\* C10: when an override pattern matches host||path and its bucket admits
\* the client, the request is passed on, neither the route nor the default
\* limiter is consulted, and their counters are not reduced by the request.
C10_OverrideBypass ==
    /\ [](\A r \in Tasks : OverrideBypasses(r))
    /\ [][\A r \in Tasks : OverrideLeavesCounters(r)]_vars

\* C10 witness: /o was admitted by the override after the shield, the target
\* answered 200, and the route and default buckets of the client are full.
C10_Witness ==
    \E r \in Tasks :
        /\ req[r] # None
        /\ req[r][1].path = <<"/", "o">>
        /\ Len(consulted[r]) = 2
        /\ consulted[r][2].layer = "override" /\ consulted[r][2].admitted
        /\ Len(resp[r]) = 1 /\ resp[r][1].status = 200 /\ resp[r][1].from = "A"
        /\ ~configurable_limiter.unlimited
        /\ configurable_limiter.tokens[req[r][1].ip] = configurable_limiter.burst
        /\ \A key \in DOMAIN route_limiters :
              route_limiters[key].tokens[req[r][1].ip] = route_limiters[key].burst

-----------------------------------------------------------------------------
(* The limiters of different rules and of different domains.               *)

\* an override rule of the request's domain matches host||path
OverrideMatches(request) ==
    /\ DomainOf(config, ExtractHost(request)) # None
    /\ find_best_match(iter_order.overrides, full_path_key(request)) # None

\* the step is one of the task's own (time passing leaves the task alone)
TaskStep(r) ==
    <<pc[r], consulted[r], visited[r], resp[r]>>' # <<pc[r], consulted[r], visited[r], resp[r]>>

\* C11: no step of a request whose host||path an override rule matches,
\* admitted or rejected with 429, changes the client's counter in any route
\* limiter: the client's later requests under a route rule are admitted as if
\* the request had not happened.
C11_OverrideLeavesRouteCounters ==
    [][\A r \in Tasks :
          (req[r] # None /\ OverrideMatches(req[r][1]) /\ TaskStep(r)) =>
              \A key \in DOMAIN route_limiters :
                  route_limiters'[key].tokens[req[r][1].ip]
                      = route_limiters[key].tokens[req[r][1].ip]]_vars

\* C11 witness: the client has emptied its bucket of the /a override (its
\* last /a request would be rejected), and its /b request is admitted by the
\* /b route rule.
C11_Witness ==
    \E r \in Tasks :
        /\ config = IsolationConfig
        /\ req[r] # None
        /\ req[r][1].path = <<"/", "b">>
        /\ override_limiters[HostH \o <<"/", "a">>].tokens[req[r][1].ip] = 0
        /\ Len(consulted[r]) >= 2
        /\ consulted[r][2] = Check("route", HostH \o <<"/", "b">>, TRUE)
        /\ HasVisited(r, "proxy_handler")

\* the default rule of the request's domain, if it is enabled
OwnDefaultRule(request) ==
    LET domain_config == DomainOf(config, ExtractHost(request))
    IN  IF /\ domain_config # None
           /\ domain_config[1].rate_limit.default # None
           /\ RuleEnabled(domain_config[1].rate_limit.default[1])
        THEN domain_config[1].rate_limit.default
        ELSE None

\* C12: the default-layer check of a request uses the rule of the request's
\* own domain: with no (enabled) default rule in that domain the check never
\* rejects, and otherwise the bucket has the capacity the domain's rule gives.
C12_DefaultIsPerHost ==
    \A r \in Tasks :
        \A i \in 1..Len(consulted[r]) :
            consulted[r][i].layer = "default" =>
                IF OwnDefaultRule(req[r][1]) = None
                THEN consulted[r][i].admitted
                ELSE /\ ~configurable_limiter.unlimited
                     /\ configurable_limiter.burst = OwnDefaultRule(req[r][1])[1].requests

-----------------------------------------------------------------------------
(* The refill of a bucket.                                                 *)

\* a window of length `period` after the bucket was emptied has just ended
\* and the client has sent until it was rejected
WindowEnded ==
    /\ quota # None
    /\ quota.elapsed > 0
    /\ quota.elapsed % parse_std_duration(quota.rule.period)[1] = 0
    /\ quota.saturated

\* C13: a limiter built from {period, requests} refills at `requests` cells
\* per `period`: a client that has emptied the bucket and keeps sending is
\* admitted `requests` times in each following window of length `period`.
C13_RefillsRequestsPerPeriod ==
    WindowEnded => quota.admitted = quota.rule.requests

-----------------------------------------------------------------------------
(* Concurrent requests within one window of the default rule.              *)

\* the tasks whose request came from the client and has had its
\* default-layer check
DefaultChecked(ip) ==
    { r \in ConcurrentTasks :
        /\ req[r] # None /\ req[r][1].ip = ip
        /\ \E i \in 1..Len(consulted[r]) : consulted[r][i].layer = "default" }

\* those of them that the default limiter admitted
DefaultAdmitted(ip) ==
    { r \in DefaultChecked(ip) :
        \E i \in 1..Len(consulted[r]) :
            consulted[r][i].layer = "default" /\ consulted[r][i].admitted }

\* N of rate_limit.default = {period, requests: N}
WindowN == config.domains[HostH].rate_limit.default[1].requests

\* C14: in a window without refill of the default limiter, whatever the
\* interleaving of the concurrent requests, the default limiter has admitted
\* min(N, k) of the k default-layer checks of each client IP (so the first N
\* are admitted and every further one rejected, and another client's checks
\* do not count); a rejected request is answered 429 and reaches no backend,
\* and an admitted one is passed on and never answered 429.
C14_FirstNAdmittedPerClient ==
    \A ip \in ClientIPs :
        /\ Cardinality(DefaultAdmitted(ip)) =
              IF Cardinality(DefaultChecked(ip)) < WindowN
              THEN Cardinality(DefaultChecked(ip)) ELSE WindowN
        /\ \A r \in DefaultChecked(ip) \ DefaultAdmitted(ip) :
              /\ Len(resp[r]) = 1 /\ resp[r][1].status = 429
              /\ attempts[r] = <<>>
        /\ \A r \in DefaultAdmitted(ip) :
              /\ \/ pc[r] = NextHandler(req[r][1].listener, "rate_limit_handler")
                 \/ HasVisited(r, NextHandler(req[r][1].listener, "rate_limit_handler"))
              /\ resp[r] # <<>> => resp[r][1].status # 429

\* C14 witness: three concurrent requests of one client were answered 200,
\* 200 and 429.
C14_Witness ==
    /\ \A r \in ConcurrentTasks : req[r] # None /\ req[r][1].ip = IP1 /\ Len(resp[r]) = 1
    /\ Cardinality({ r \in ConcurrentTasks : resp[r][1].status = 200 }) = 2
    /\ Cardinality({ r \in ConcurrentTasks : resp[r][1].status = 429 }) = 1
    /\ Cardinality(DefaultChecked(IP1)) = 3

-----------------------------------------------------------------------------
(* The shield.                                                             *)

\* the request has been answered after a shield check, and with 429 if the
\* shield rejected it
AnsweredAfterShield(r) ==
    resp[r] # <<>> =>
        /\ consulted[r] # <<>>
        /\ consulted[r][1].layer = "shield"
        /\ ~consulted[r][1].admitted => resp[r][1].status = 429

ReachedRateLimiter(r) ==
    /\ req[r] # None
    /\ HasVisited(r, "rate_limit_handler")
    /\ ExtractHost(req[r][1]) # None

\* the shield is the first and only shield check of the request, and a
\* request it rejects is answered 429 at once
ShieldCheckedFirst(r) ==
    ReachedRateLimiter(r) =>
        /\ consulted[r] # <<>>
        /\ consulted[r][1].layer = "shield"
        /\ \A i \in 2..Len(consulted[r]) : consulted[r][i].layer # "shield"
        /\ ~HasVisited(r, NextHandler(req[r][1].listener, "rate_limit_handler"))
              \/ consulted[r][1].admitted
        /\ ~consulted[r][1].admitted =>
              /\ consulted[r] = << Check("shield", <<>>, FALSE) >>
              /\ pc[r] = "done"
              /\ Len(resp[r]) = 1 /\ resp[r][1].status = 429
              /\ attempts[r] = <<>>

\* the shield check of a request looks at the bucket of the client IP alone
\* and changes no other bucket
ShieldKeyedByIp(r) ==
    (consulted[r] = <<>> /\ consulted'[r] # <<>>) =>
        LET ip == req[r][1].ip
        IN  /\ consulted'[r][1].admitted = (shield[ip] > 0)
            /\ shield' = [shield EXCEPT ![ip] = IF @ > 0 THEN @ - 1 ELSE 0]

-----------------------------------------------------------------------------
(* Rules with requests = 0 or a zero period.                               *)

\* no limiter exists for a disabled route or override rule
NoLimiterForDisabledRule ==
    \A host \in DOMAIN config.domains :
        LET rate_limit == config.domains[host].rate_limit
        IN  /\ \A i \in 1..Len(rate_limit.routes) :
                  ~RuleEnabled(rate_limit.routes[i].rule) =>
                      (host \o rate_limit.routes[i].path) \notin DOMAIN route_limiters
            /\ \A i \in 1..Len(rate_limit.overrides) :
                  ~RuleEnabled(rate_limit.overrides[i].rule) =>
                      (host \o rate_limit.overrides[i].path) \notin DOMAIN override_limiters

\* a request of a domain whose default rule is disabled or absent is not
\* rejected by the default layer
DisabledDefaultNeverRejects ==
    \A r \in Tasks :
        \A i \in 1..Len(consulted[r]) :
            (consulted[r][i].layer = "default" /\ OwnDefaultRule(req[r][1]) = None) =>
                consulted[r][i].admitted

\* C16: a route or override rule with requests = 0 or a zero period creates
\* no limiter, and a domain whose default rule has requests = 0 or a zero
\* period is served as a domain without default rule: none of its requests
\* is rejected by the default layer.
C16_DisabledRuleIsAbsent ==
    /\ NoLimiterForDisabledRule
    /\ DisabledDefaultNeverRejects

-----------------------------------------------------------------------------
(* The method filter and CORS.                                             *)

\* the allow-list of the request's domain does not list the request's method
MethodFiltered(request) ==
    LET domain_config == DomainOf(config, ExtractHost(request))
    IN  /\ domain_config # None
        /\ domain_config[1].methods # None
        /\ domain_config[1].methods[1].allow # <<"*">>
        /\ request.method \notin allowed_methods(domain_config[1].methods[1].allow)

\* the request was answered after it had passed the HTTP-mode policy and the
\* rate limiter of a TCP listener
AnsweredPastRateLimiter(r) ==
    /\ req[r] # None
    /\ req[r][1].listener \in {"http", "https"}
    /\ HasVisited(r, NextHandler(req[r][1].listener, "rate_limit_handler"))
    /\ pc[r] = "done"
    /\ Len(resp[r]) = 1

\* C17: an OPTIONS request, preflight or not, to a domain whose allow-list
\* does not list OPTIONS is answered with the method filter's 405, also when
\* CORS would reject its origin or its requested method.
C17_MethodFilter405First ==
    \A r \in Tasks :
        (AnsweredPastRateLimiter(r) /\ req[r][1].method = "OPTIONS"
                                    /\ MethodFiltered(req[r][1])) =>
            resp[r][1].status = 405

-----------------------------------------------------------------------------
(* The order of the layers of a listener.                                  *)

\* the handlers of the HTTP listener in the order method-filter, CORS,
\* rate-limit, http-mode, router and forwarder
HttpOrderAsDescribed ==
    << "method_filter_handler", "cors_handler", "rate_limit_handler",
       "http_request_handler", "proxy_handler" >>

\* the handlers entered so far are the first handlers of the given order
EnteredInOrder(r, order) ==
    /\ Len(visited[r]) <= Len(order)
    /\ \A i \in 1..Len(visited[r]) : visited[r][i] = order[i]

\* C18: on the HTTP listener a request passes method-filter, CORS,
\* rate-limit, http-mode and router/forwarder in this order, and the rate
\* limiter has been consulted when the HTTP-mode policy answers 426 or 301.
C18_HttpLayerOrder ==
    \A r \in Tasks :
        (req[r] # None /\ req[r][1].listener = "http") =>
            /\ EnteredInOrder(r, HttpOrderAsDescribed)
            /\ (resp[r] # <<>> /\ resp[r][1].status \in {301, 426}) =>
                  (consulted[r] # <<>> /\ HasVisited(r, "rate_limit_handler"))

\* the handlers of the HTTPS-TCP listener without the Alt-Svc layer
HttpsOrderWithoutAltSvc ==
    SelectSeq(Pipeline("https"), LAMBDA handler : handler # "alt_svc_handler")

\* C19: the HTTP/3 listener runs the handlers of the HTTPS-TCP listener
\* other than Alt-Svc, in the same order; in particular a request whose
\* method is outside methods.allow never reaches the router on HTTP/3.
C19_Http3AsHttps ==
    \A r \in Tasks :
        (req[r] # None /\ req[r][1].listener = "h3") =>
            /\ EnteredInOrder(r, HttpsOrderWithoutAltSvc)
            /\ MethodFiltered(req[r][1]) => ~HasVisited(r, "proxy_handler")

\* the request has passed the rate limiter of its listener and was answered
AnsweredInsideRateLimiter(r) ==
    /\ req[r] # None
    /\ HasVisited(r, NextHandler(req[r][1].listener, "rate_limit_handler"))
    /\ pc[r] = "done"
    /\ Len(resp[r]) = 1

\* C20: for a domain with an allow-list other than `*`, a request whose
\* method is not in the list (entries trimmed and upper-cased) is answered
\* 405 and reaches no backend; a request whose method is in the list, and
\* any request when the list is `*` or absent, is not answered by the filter.
C20_AllowListFilters ==
    \A r \in Tasks :
        AnsweredInsideRateLimiter(r) =>
            IF MethodFiltered(req[r][1])
            THEN resp[r][1].status = 405 /\ attempts[r] = <<>>
            ELSE resp[r][1].from = "vane" => resp[r][1].status # 405

-----------------------------------------------------------------------------
(* CORS.                                                                   *)

\* the domain whose routes serve the request: the router looks it up under
\* the Host header's host name
RoutedDomain(request) ==
    IF TypedHeaderHost(request) = None THEN None
    ELSE DomainOf(config, Some(hostname(TypedHeaderHost(request)[1])))

\* an OPTIONS request with Origin and Access-Control-Request-Method
IsPreflight(request) ==
    /\ request.method = "OPTIONS"
    /\ HeaderGet(request.headers, "origin") # None
    /\ HeaderGet(request.headers, "access-control-request-method") # None

\* the request is for a domain with a cors block and the CORS layer has
\* dealt with it
CorsLayerPassed(r) ==
    /\ req[r] # None
    /\ RoutedDomain(req[r][1]) # None
    /\ RoutedDomain(req[r][1])[1].cors # None
    /\ HasVisited(r, "cors_handler")
    /\ pc[r] # "cors_handler"

\* the origin is a key of origins, exactly or through `*`
OriginListed(origins, origin) == origin \in DOMAIN origins \/ <<"*">> \in DOMAIN origins

\* the methods value of the origin's entry
MethodsValue(origins, origin) ==
    IF origin \in DOMAIN origins THEN origins[origin] ELSE origins[<<"*">>]

\* the preflight is granted: the origin is listed and the requested method
\* is in the entry's methods value, or the value is `*` or empty
PreflightGranted(request) ==
    LET origins == RoutedDomain(request)[1].cors[1].origins
        origin == HeaderGet(request.headers, "origin")[1]
        requested == HeaderGet(request.headers, "access-control-request-method")[1][1]
    IN  /\ OriginListed(origins, origin)
        /\ \/ MethodsValue(origins, origin) \in { <<"*">>, <<>> }
           \/ \E i \in 1..Len(MethodsValue(origins, origin)) :
                 NormalizeMethod(MethodsValue(origins, origin)[i]) = requested

\* the four CORS headers of a preflight answer
PreflightHeaders(request, res) ==
    IF PreflightGranted(request)
    THEN /\ res.headers["access-control-allow-origin"]
               = << HeaderGet(request.headers, "origin")[1] >>
         /\ res.headers["access-control-allow-methods"] # <<>>
         /\ res.headers["access-control-allow-headers"] = << <<"*">> >>
         /\ res.headers["vary"] # <<>>
    ELSE \A name \in { "access-control-allow-origin", "access-control-allow-methods",
                        "access-control-allow-headers", "vary" } :
             res.headers[name] = <<>>

\* C21: a preflight request for a domain with a cors block ends in the CORS
\* layer: it is answered 200, never reaches the router or a backend, and the
\* answer carries Access-Control-Allow-Origin, -Methods, -Headers and Vary
\* iff the origin is listed and the requested method is allowed for it.
C21_PreflightIsTerminal ==
    \A r \in Tasks :
        (CorsLayerPassed(r) /\ IsPreflight(req[r][1])) =>
            /\ pc[r] = "done"
            /\ ~HasVisited(r, "proxy_handler")
            /\ attempts[r] = <<>>
            /\ Len(resp[r]) = 1
            /\ resp[r][1].status = 200
            /\ PreflightHeaders(req[r][1], resp[r][1])

\* the request is for a configured domain and the CORS layer has dealt
\* with it
CorsLayerLeft(r) ==
    /\ req[r] # None
    /\ RoutedDomain(req[r][1]) # None
    /\ HasVisited(r, "cors_handler")
    /\ pc[r] # "cors_handler"

\* the CORS layer acts on the request: its domain has a cors block and it
\* carries an Origin header
CorsApplies(request) ==
    /\ RoutedDomain(request)[1].cors # None
    /\ HeaderGet(request.headers, "origin") # None

\* the response carries Access-Control-Allow-Origin: <origin> and
\* Vary: Origin
StampedWithOrigin(request, res) ==
    /\ res.headers["access-control-allow-origin"] = << HeaderGet(request.headers, "origin")[1] >>
    /\ res.headers["vary"] = << <<"Origin">> >>

\* the response carries neither header
NotStamped(res) ==
    /\ res.headers["access-control-allow-origin"] = <<>>
    /\ res.headers["vary"] = <<>>

\* C22: for a domain with a cors block a non-preflight request with an
\* Origin header goes on to the layers inside the CORS layer whether or not
\* the origin is listed, and its response gets Access-Control-Allow-Origin:
\* <origin> and Vary: Origin iff the origin is listed (exactly or through
\* `*`); without Origin header or cors block the request passes and the
\* response gets neither header.
C22_ActualRequestIsStamped ==
    \A r \in Tasks :
        (CorsLayerLeft(r) /\ ~(CorsApplies(req[r][1]) /\ IsPreflight(req[r][1]))) =>
            /\ \/ pc[r] = NextHandler(req[r][1].listener, "cors_handler")
               \/ HasVisited(r, NextHandler(req[r][1].listener, "cors_handler"))
            /\ resp[r] # <<>> =>
                  IF /\ CorsApplies(req[r][1])
                     /\ OriginListed(RoutedDomain(req[r][1])[1].cors[1].origins,
                                     HeaderGet(req[r][1].headers, "origin")[1])
                  THEN StampedWithOrigin(req[r][1], resp[r][1])
                  ELSE NotStamped(resp[r][1])

-----------------------------------------------------------------------------
(* The HTTP-mode policy.                                                   *)

\* a request of the HTTP listener for a configured domain, past the
\* HTTP-mode layer
PlainHttpFor(r, http_options) ==
    /\ req[r] # None
    /\ req[r][1].listener = "http"
    /\ RoutedDomain(req[r][1]) # None
    /\ RoutedDomain(req[r][1])[1].http_options = http_options
    /\ HasVisited(r, "http_request_handler")
    /\ pc[r] # "http_request_handler"

\* the request was answered by the HTTP-mode layer with the given status
AnsweredByHttpMode(r, status) ==
    /\ pc[r] = "done"
    /\ visited[r] = << "http_request_handler" >>
    /\ Len(resp[r]) = 1
    /\ resp[r][1].status = status
    /\ attempts[r] = <<>>

\* C23: on the HTTP listener a request for a domain with http_options allow
\* is passed on, with reject it is answered 426 and with upgrade 301 with
\* Location https://<host><path>; a request for a domain with reject or
\* upgrade never reaches a backend.
C23_HttpModePolicy ==
    \A r \in Tasks :
        /\ PlainHttpFor(r, "allow") =>
              \/ pc[r] = NextHandler("http", "http_request_handler")
              \/ HasVisited(r, NextHandler("http", "http_request_handler"))
        /\ PlainHttpFor(r, "reject") => AnsweredByHttpMode(r, 426)
        /\ PlainHttpFor(r, "upgrade") =>
              /\ AnsweredByHttpMode(r, 301)
              /\ resp[r][1].headers["location"]
                    = << <<"https://">> \o hostname(TypedHeaderHost(req[r][1])[1])
                                       \o req[r][1].path >>

-----------------------------------------------------------------------------
(* Strict-Transport-Security and Alt-Svc.                                  *)

\* the client has the response to a request for a configured domain
AnsweredFor(r) ==
    /\ req[r] # None
    /\ RoutedDomain(req[r][1]) # None
    /\ pc[r] = "done"
    /\ Len(resp[r]) = 1

StsValue == << <<"max-age=31536000; includeSubDomains">> >>

\* C24: every response of the HTTPS-TCP and HTTP/3 listeners for a domain
\* with https && hsts carries Strict-Transport-Security: max-age=31536000;
\* includeSubDomains, whichever layer produced it; no response of the HTTP
\* listener and no response for a domain with hsts = false carries it.
C24_HstsOnEveryTlsResponse ==
    \A r \in Tasks :
        AnsweredFor(r) =>
            LET domain_config == RoutedDomain(req[r][1])[1]
            IN  IF /\ req[r][1].listener \in {"https", "h3"}
                   /\ domain_config.https /\ domain_config.hsts
                THEN resp[r][1].headers["strict-transport-security"] = StsValue
                ELSE resp[r][1].headers["strict-transport-security"] = <<>>

AltSvcValue == << <<"h3=:https_port; ma=86400">> >>

\* C25: the HTTPS-TCP listener attaches Alt-Svc: h3=":<https_port>";
\* ma=86400 to every response for a domain with http3 = true and to no
\* response for a domain with http3 = false; the HTTP and HTTP/3 listeners
\* attach it to no response.
C25_AltSvcOnHttpsTcp ==
    \A r \in Tasks :
        AnsweredFor(r) =>
            IF req[r][1].listener = "https" /\ RoutedDomain(req[r][1])[1].http3
            THEN resp[r][1].headers["alt-svc"] = AltSvcValue
            ELSE resp[r][1].headers["alt-svc"] = <<>>

-----------------------------------------------------------------------------
(* The SNI resolver.                                                       *)

\* the ClientHello names a configured domain with https = true and a tls
\* block
ServesTls(server_name) ==
    /\ server_name # None
    /\ server_name[1] \in DOMAIN config.domains
    /\ config.domains[server_name[1]].https
    /\ config.domains[server_name[1]].tls # None

\* the certificate file and the key file, as the handshake read them, load
\* and parse
FilesLoad(hello) ==
    /\ hello.certs # None /\ hello.certs[1] \notin {"missing", "malformed"}
    /\ hello.key # None /\ hello.key[1] \in {"v1", "v2"}

OwnStep(h) ==
    LET before == tls.hello[h]
        after == tls'.hello[h]
    IN  (after # before) =>
            /\ tls'.disk = tls.disk
            /\ config' = config
            /\ \A g \in Handshakes \ {h} : tls'.hello[g] = tls.hello[g]
            /\ (before.certs = None /\ after.certs # None) => after.certs = Some(tls.disk.cert)
            /\ (before.key = None /\ after.key # None) => after.key = Some(tls.disk.key)
            /\ after.result # None =>
                  after.result = Some([cert |-> load_certs(after.certs[1])[1],
                                       key  |-> after.key[1]])

\* C27: the resolver keeps no state between handshakes: each handshake reads
\* the files when it runs and its answer depends only on the configuration
\* and on what it read, so a failed load does not affect a later handshake,
\* a replaced file is served from the next handshake on, and handshakes in
\* progress at the same time do not change each other's answer.
C27_ResolverIsStateless ==
    [][\A h \in Handshakes : OwnStep(h)]_vars

\* C27 witness: a handshake for h failed on a missing certificate file
\* and is still open, and a handshake that started after the files were
\* replaced by version 2 got version 2.
C27_Witness ==
    \E h, g \in Handshakes :
        /\ tls.hello[h].step = "done"
        /\ tls.hello[h].server_name = Some(HostH)
        /\ tls.hello[h].certs = Some("missing")
        /\ tls.hello[h].result = None
        /\ tls.hello[g].step = "done"
        /\ tls.hello[g].server_name = Some(HostH)
        /\ tls.hello[g].result = Some([cert |-> <<"v2">>, key |-> "v2"])
        /\ tls.disk = [cert |-> "v2", key |-> "v2"]

\* a listed domain file that parses and has https = true without a [tls] table
HttpsWithoutTls(files) ==
    \E name \in DOMAIN files :
        files[name] # None /\ files[name][1].https /\ files[name][1].tls = None

\* C28: startup rejects a configuration in which some domain has https = true
\* and no tls block: load_config fails, the configuration is never installed
\* and no listener is ever started; hence whenever a listener is running,
\* every domain with https = true has a tls block.
C28_HttpsNeedsTls ==
    /\ HttpsWithoutTls(boot.files) =>
          /\ boot.step \in {"load_config", "exited"}
          /\ boot.listeners = {}
          /\ config = AppConfig(<<>>)
    /\ boot.listeners # {} =>
          \A name \in DOMAIN config.domains :
              config.domains[name].https => config.domains[name].tls # None

\* C28 witness: every listed domain file parses, one of them has https = true
\* and no tls block, and startup has ended the process without a listener.
C28_Witness ==
    /\ HttpsWithoutTls(boot.files)
    /\ \A name \in DOMAIN boot.files : boot.files[name] # None
    /\ HostZ \in DOMAIN boot.files
    /\ boot.step = "exited"
    /\ boot.listeners = {}

\* the target list the forwarder is handed for the request of task r
ForwarderTargets(r) ==
    resolve_targets(hostname(TypedHeaderHost(req[r][1])[1]), req[r][1].path, config)

\* C29: in every state in which requests are served, every Route of every
\* domain of the configuration has at least one target, and the forwarder is
\* never handed an empty target list.
C29_EveryRouteHasTarget ==
    /\ boot.step = "serving" =>
          \A name \in DOMAIN config.domains :
              \A i \in 1..Len(config.domains[name].routes) :
                  config.domains[name].routes[i].targets # <<>>
    /\ \A r \in Tasks :
          (pc[r] = "proxy_handler" /\ TypedHeaderHost(req[r][1]) # None
             /\ ForwarderTargets(r).kind = "Ok")
          => ForwarderTargets(r).targets[1] # <<>>

\* the listeners are those of the sentence: HTTP, HTTPS-TCP iff some domain has
\* https, HTTP/3 iff some domain has http3
ListenersByFlag(listeners, cfg) ==
    /\ "http" \in listeners
    /\ "https" \in listeners <=> \E name \in DOMAIN cfg.domains : cfg.domains[name].https
    /\ "h3" \in listeners <=> \E name \in DOMAIN cfg.domains : cfg.domains[name].http3

\* C30 as stated: once startup is over the HTTP listener runs, the HTTPS-TCP
\* listener runs iff some domain has https = true, the HTTP/3 listener runs
\* iff some domain has http3 = true, and HTTP/3 never runs without HTTPS-TCP.
C30_ListenersByFlag ==
    /\ boot.step = "serving" => ListenersByFlag(boot.listeners, config)
    /\ "h3" \in boot.listeners => "https" \in boot.listeners

\* C30, amended: once startup is over the HTTP listener runs, the HTTPS-TCP
\* listener runs iff some domain has https = true, and the HTTP/3 listener
\* runs iff some domain has both https = true and http3 = true; in every
\* state HTTP/3 does not run without HTTPS-TCP, nor any listener without
\* HTTP; and a startup that ended in the first-run setup or in an error
\* started no listener.
C30_ListenersStarted ==
    /\ boot.step = "serving" =>
          /\ "http" \in boot.listeners
          /\ "https" \in boot.listeners <=>
                \E name \in DOMAIN config.domains : config.domains[name].https
          /\ "h3" \in boot.listeners <=>
                \E name \in DOMAIN config.domains :
                    config.domains[name].https /\ config.domains[name].http3
    /\ "h3" \in boot.listeners => "https" \in boot.listeners
    /\ boot.listeners # {} => "http" \in boot.listeners
    /\ boot.step \in {"first_run", "exited"} => boot.listeners = {}

\* C30 witness: startup is over, a domain has http3 = true without https,
\* another has https = true, and the HTTP and HTTPS-TCP listeners run without
\* the HTTP/3 listener.
C30_Witness ==
    /\ boot.step = "serving"
    /\ \E name \in DOMAIN config.domains :
          config.domains[name].http3 /\ ~config.domains[name].https
    /\ boot.listeners = {"http", "https"}

\* C31: after SIGINT or SIGTERM no listener accepts a new request, and the
\* process does not end while a request is in flight: every request in
\* flight at the signal has its response sent before the process ends.
C31_GracefulShutdown ==
    /\ [](boot.step = "ended" => \A r \in Tasks : pc[r] \in {"idle", "done"})
    /\ [][boot.step # "serving" =>
             \A r \in Tasks : pc[r] = "idle" => pc'[r] = "idle"]_vars

\* the error responses served so far
Served == { pages.calls[i] : i \in 1..Len(pages.calls) }

\* C32 as stated: every error is served with the status of its kind, with or
\* without a page file, and two responses to the same kind of error differ
\* at most in their body.
C32_OnlyTheBodyChanges ==
    /\ \A call \in Served : call.response.status = StatusOfKind(call.kind)
    /\ \A a, b \in Served :
          a.kind = b.kind =>
             /\ a.response.status = b.response.status
             /\ a.response.content_type = b.response.content_type

\* the call that has just been served read the directory as it was at the call
ReadsThrough(call, dir) ==
    LET file == dir[StatusOfKind(call.kind)]
    IN  /\ call.response.status = StatusOfKind(call.kind)
        /\ file # None =>
              /\ call.response.body = file[1]
              /\ call.response.content_type = "text/html; charset=utf-8"
        /\ file = None =>
              /\ call.response.body = DefaultMessage(call.kind)
              /\ call.response.content_type = "text/plain; charset=utf-8"

\* C32, amended: every error is served with the status of its kind (400,
\* 404, 502, 405, 429) whether or not the page file can be read; each call
\* reads the file anew, so the response carries the file as it is at that
\* call (HTML) or the plain-text message when it cannot be read; a change
\* of the file between two requests changes the body and the Content-Type
\* of the later response only, never a status and never an earlier response.
C32_StatusFixedPageReadThrough ==
    /\ [](\A call \in Served : call.response.status = StatusOfKind(call.kind))
    /\ [][/\ Len(pages'.calls) > Len(pages.calls) =>
               ReadsThrough(pages'.calls[Len(pages'.calls)], pages.dir)
          /\ \A i \in 1..Len(pages.calls) : pages'.calls[i] = pages.calls[i]]_vars

\* C32 witness: the same kind of error was served twice, first without a
\* page file (plain text) and, the file having been added, with its text:
\* same status, different body.
C32_Witness ==
    /\ Len(pages.calls) = 2
    /\ pages.calls[1].kind = "NoRouteFound"
    /\ pages.calls[2].kind = "NoRouteFound"
    /\ pages.calls[1].response =
          status_page(404, "No route found for this path", None)
    /\ pages.calls[2].response =
          status_page(404, "No route found for this path", Some("page 1"))

\* the text without its last character when that is a slash
WithoutTrailingSlash(text) ==
    IF text # <<>> /\ text[Len(text)] = "/" THEN [k \in 1..(Len(text) - 1) |-> text[k]]
    ELSE text

\* the path of the request, then `?` and its query when it has one
PathAndQuery(request) ==
    IF request.query = None THEN request.path
    ELSE request.path \o <<"?">> \o request.query[1]

\* the attempt carries the request the forwarder was handed: method, path
\* and query after the target, version 1.1, every header that is not an IP
\* header, and the body
CarriesRequest(attempt, request) ==
    /\ attempt.method = request.method
    /\ attempt.url = WithoutTrailingSlash(TargetText(attempt.target)) \o PathAndQuery(request)
    /\ attempt.version = "HTTP/1.1"
    /\ \A name \in HeaderNames \ {IP_HEADERS_TO_CLEAN[k] : k \in 1..Len(IP_HEADERS_TO_CLEAN)} :
          attempt.headers[name] = request.headers[name]
    /\ attempt.body = request.body

\* C33: every attempt of the failover loop sends the method, the path and
\* query, the non-IP headers and the body of the request the forwarder was
\* handed, to the URL made of the target without its trailing slash and of
\* the path and query, as HTTP/1.1; and the body is read from the client
\* once, however many attempts are made.
C33_AttemptsCarryTheRequest ==
    \A r \in Tasks :
        /\ \A i \in 1..Len(attempts[r]) : CarriesRequest(attempts[r][i], req[r][1])
        /\ fwd[r].body_reads <= 1
        /\ attempts[r] # <<>> => fwd[r].body_reads = 1

\* C33 witness: a POST of /x?q with a body was sent to the three targets in
\* turn, each time with the query and the body.
C33_Witness ==
    \E r \in Tasks :
        /\ Len(attempts[r]) = 3
        /\ req[r][1].method = "POST"
        /\ fwd[r].body_reads = 1
        /\ attempts[r][1].url = <<"A", "/", "x", "?", "q">>
        /\ attempts[r][2].url = <<"B", "/", "x", "?", "q">>
        /\ attempts[r][3].url = <<"C", "/", "/", "x", "?", "q">>
        /\ \A i \in 1..3 : attempts[r][i].body = <<"d">>

\* C34: one fetch makes at most 5 attempts; only the last attempt can be a
\* 404 or a success, and either ends the fetch at once (a 404 with an error);
\* every other status and every connection error is followed by a wait of
\* 5 seconds, then by a new attempt until 5 are used, after which the
\* fetch fails.
C34_FetchRetries ==
    LET n == Len(acme.outcomes)
    IN  /\ acme.attempt = n /\ n <= 5
        /\ \A i \in 1..(n - 1) : acme.outcomes[i] \in {"other_status", "connect_error"}
        /\ (n > 0 /\ acme.outcomes[n] = "not_found") =>
              acme.step = "returned" /\ acme.result = Some("Err: 404 Not Found")
        /\ (n > 0 /\ acme.outcomes[n] \in {"success", "success_invalid"}) =>
              acme.step = "returned" /\ acme.result # None
        /\ (n > 0 /\ acme.outcomes[n] \in {"other_status", "connect_error"}) =>
              \/ acme.step = "sleep" /\ acme.slept = 5 * (n - 1)
              \/ acme.step = "loop" /\ acme.slept = 5 * n
              \/ /\ acme.step = "returned" /\ n = 5 /\ acme.slept = 25
                 /\ acme.result = Some("Err: attempts used")
        /\ acme.result = Some("Ok") <=> (n > 0 /\ acme.outcomes[n] = "success")
        /\ acme.step = "returned" <=> acme.result # None

\* C34 witness: five attempts met another status or a connection error, each
\* was followed by its wait, and the fetch failed.
C34_Witness ==
    /\ acme.attempt = 5
    /\ acme.outcomes = <<"other_status", "connect_error", "other_status",
                         "connect_error", "other_status">>
    /\ acme.slept = 25
    /\ acme.result = Some("Err: attempts used")

\* the policy of the domain that serves the request let it through: its
\* http_options on the HTTP listener, its method allow-list on the TCP
\* listeners
PolicyOfRoutedDomainApplied(request) ==
    LET domain_config == RoutedDomain(request)[1]
    IN  /\ request.listener = "http" => domain_config.http_options = "allow"
        /\ request.listener \in {"http", "https"} =>
              \/ domain_config.methods = None
              \/ domain_config.methods[1].allow = <<"*">>
              \/ request.method \in allowed_methods(domain_config.methods[1].allow)

\* C35: for every request sent to a backend, the host name under which the
\* middleware layers look up the domain policy is the host name under which
\* the router found the routes, and the policy of that domain (http_options
\* on the HTTP listener, method allow-list) was applied to the request.
C35_OneHostForPolicyAndRouting ==
    \A r \in Tasks :
        (req[r] # None /\ attempts[r] # <<>>) =>
            /\ ExtractHost(req[r][1]) = Some(hostname(TypedHeaderHost(req[r][1])[1]))
            /\ PolicyOfRoutedDomainApplied(req[r][1])

\* the keys of the limiter map of a layer
LimiterKeys(layer) ==
    IF layer = "override" THEN DOMAIN override_limiters ELSE DOMAIN route_limiters

\* the pattern attains the maximal score among the patterns that match
MaximalMatch(pattern, keys, full_path) ==
    /\ pattern \in keys
    /\ rl_get_match_score(pattern, full_path) # None
    /\ \A other \in keys :
          rl_get_match_score(other, full_path) # None =>
             ~ScoreGt(rl_get_match_score(other, full_path)[1],
                      rl_get_match_score(pattern, full_path)[1])

\* C36: the limiter find_best_match returned for a request has a pattern of
\* maximal score among the matching patterns of its map, and it is the one
\* find_best_match returns under every iteration order of the map.
C36_BestMatchIsDeterministic ==
    \A r \in Tasks :
        \A i \in 1..Len(consulted[r]) :
            consulted[r][i].layer \in {"override", "route"} =>
                LET keys == LimiterKeys(consulted[r][i].layer)
                IN  /\ MaximalMatch(consulted[r][i].key, keys, full_path_key(req[r][1]))
                    /\ \A order \in IterationOrders(keys) :
                          find_best_match(order, full_path_key(req[r][1]))
                             = Some(consulted[r][i].key)

\* the enabled route and override rules of the configuration, each with its
\* host and layer
ConfiguredRules ==
    UNION { { [host |-> name, layer |-> "route",
               rule |-> config.domains[name].rate_limit.routes[i]] :
                 i \in 1..Len(config.domains[name].rate_limit.routes) }
            \cup
            { [host |-> name, layer |-> "override",
               rule |-> config.domains[name].rate_limit.overrides[i]] :
                 i \in 1..Len(config.domains[name].rate_limit.overrides) } :
            name \in DOMAIN config.domains }

\* C37: two rules of one layer with different (host, path pattern) pairs have
\* different keys, and the route or override limiter consulted for a request
\* was built from a rule of the request's own host.
C37_LimiterKeysSeparateHosts ==
    /\ \A x, y \in ConfiguredRules :
          (x.layer = y.layer /\ RuleEnabled(x.rule.rule) /\ RuleEnabled(y.rule.rule)
             /\ <<x.host, x.rule.path>> # <<y.host, y.rule.path>>)
          => x.host \o x.rule.path # y.host \o y.rule.path
    /\ \A r \in Tasks :
          \A i \in 1..Len(consulted[r]) :
              consulted[r][i].layer \in {"override", "route"} =>
                  /\ \E x \in ConfiguredRules :
                        /\ x.layer = consulted[r][i].layer
                        /\ x.host = ExtractHost(req[r][1])[1]
                        /\ x.host \o x.rule.path = consulted[r][i].key
                  /\ \A x \in ConfiguredRules :
                        (x.layer = consulted[r][i].layer
                           /\ x.host \o x.rule.path = consulted[r][i].key)
                        => x.host = ExtractHost(req[r][1])[1]

\* the entries of the target list that the loop has contacted so far: the
\* iterations whose URL parsed
ContactedEntries(f) ==
    { i \in 1..Len(f.outcomes) : f.outcomes[i].kind # "invalid_url" }

\* the k-th contacted entry, in the order of the list
NthContacted(f, k) ==
    CHOOSE i \in ContactedEntries(f) :
        Cardinality({ j \in ContactedEntries(f) : j <= i }) = k

\* an iteration ended the loop with the target's response
AnsweredByBackend(f, response) ==
    /\ f.outcomes # <<>>
    /\ f.outcomes[Len(f.outcomes)].kind = "response"
    /\ ~is_server_error(f.outcomes[Len(f.outcomes)].status)
    /\ response.status = f.outcomes[Len(f.outcomes)].status
    /\ response.from = f.targets[Len(f.outcomes)]
    /\ response.error = None

\* every entry of the list was tried and failed
AnsweredBadGateway(f, response) ==
    /\ Len(f.outcomes) = Len(f.targets)
    /\ \A i \in 1..Len(f.outcomes) :
          ~(f.outcomes[i].kind = "response" /\ ~is_server_error(f.outcomes[i].status))
    /\ response.status = 502
    /\ response.error # None
    /\ response.error[1].kind = "BadGateway"

\* the loop is bounded by the list: one iteration per entry, in the order of
\* the list, each entry contacted at most once, and the loop's answer is the
\* response of the target tried last or BadGateway
LoopBoundedByList(r) ==
    LET f == fwd[r]
    IN  f.targets # <<>> =>
          /\ Len(f.outcomes) <= Len(f.targets)
          /\ Len(attempts[r]) = Cardinality(ContactedEntries(f))
          /\ \A k \in 1..Len(attempts[r]) :
                attempts[r][k].target = f.targets[NthContacted(f, k)]
          /\ pc[r] = "failover" => f.idx = Len(f.outcomes) + 1 /\ f.idx <= Len(f.targets)
          /\ pc[r] = "done" =>
                \/ AnsweredByBackend(f, resp[r][Len(resp[r])])
                \/ AnsweredBadGateway(f, resp[r][Len(resp[r])])

\* no URL is contacted twice for one request
NoTargetTwice(r) ==
    \A i, j \in 1..Len(attempts[r]) :
        i # j => attempts[r][i].target # attempts[r][j].target

ForwarderTerminates == \A r \in Tasks : (pc[r] = "failover") ~> (pc[r] = "done")

NothingReplaced ==
    /\ \A f \in RenewalFiles :
          f.dir = cert_dir => renewal.files[f] = renewal.before[1].files[f]
    /\ renewal.timestamp = renewal.before[1].timestamp

\* the hourly check that follows a run which failed in a fetch starts a run
RetriedAtNextCheck ==
    (renewal.step = "wait" /\ renewal.last = "Err" /\ renewal.failed = "fetch"
       /\ renewal'.ticks # renewal.ticks)
    => (renewal'.run = renewal.run + 1 /\ renewal'.step # "wait")

\* the timestamp file is written only at the end of a run that returned Ok
StampedAfterOk ==
    renewal'.timestamp # renewal.timestamp
    => (renewal.step = "result" /\ renewal.result \in {"Ok(true)", "Ok(false)"}
        /\ renewal'.timestamp = Some(renewal.clock))

\* C39: a run of the renewal in which the fetch of a certificate or key
\* fails replaces no certificate or key file of cert_dir and does not write
\* the timestamp file, the next hourly check starts the renewal again, and
\* the timestamp file is written only after a run that returned without
\* error.
C39_RenewalAllOrNothing ==
    /\ [](renewal.failed = "fetch" => NothingReplaced)
    /\ [][RetriedAtNextCheck /\ StampedAfterOk]_vars

\* the second host's fetch failed after the first host's files were fetched,
\* in a run that was itself the retry of a failed run
C39_Witness ==
    /\ renewal.failed = "fetch"
    /\ renewal.run = 2
    /\ renewal.i = 2
    /\ renewal.step = "wait"
    /\ \E f \in RenewalFiles : f.dir = tmp_dir /\ renewal.files[f] = 2

\* C40: for every pattern and path, the rate limiter's get_match_score and
\* path_matcher::get_match_score give the same result: both None, or both
\* the same score.
C40_SameMatchScore ==
    mScore # None => mScore[1].router = mScore[1].limiter

\* both functions were applied to a pattern with a wildcard and an exact
\* segment that matches the path
C40_Witness ==
    /\ mScore # None
    /\ mScore[1].limiter # None
    /\ mScore[1].limiter[1].exact_parts >= 1
    /\ mScore[1].limiter[1].total_parts > mScore[1].limiter[1].exact_parts

=============================================================================
